---- MODULE Spec2Model ----
(***************************************************************************)
(* Model of the sync engine of powerplat-update: the sync orchestrator     *)
(* (services/sync.service.ts, latest revision), the queries it runs on the *)
(* local store (database/queries.ts, schema.sql) and the GitHub client     *)
(* (api/githubClient.ts).                                                  *)
(*                                                                         *)
(* JavaScript is single threaded: a run is suspended only at an await.     *)
(* Every action below is the code of one run between two awaits.           *)
(***************************************************************************)
EXTENDS Integers, Sequences, FiniteSets, TLC

\* ---------------------------------------------------------------- bounds
MaxRuns == 2          \* run slots: runs that can be in flight together
MaxSyncs == 2         \* invocations of syncFromGitHub in one behaviour
MaxTicks == 1         \* hours the clock advances
MaxCommits == 1       \* commits made to the remote in one behaviour
MaxFaults == 2        \* faults injected in one behaviour
MaxUpserts == 3       \* direct calls of upsertUpdate in one behaviour
MaxSkipped == 1       \* calls of startBackgroundSync skipped during one run
MaxLoopFiles == 7     \* files of the file loop specified on its own

\* ------------------------------------------------------- program constants
NULL == 0                    \* SQL NULL / JS null of a nullable column
Epoch == 0                   \* '1970-01-01T00:00:00.000Z', in hours
MinIntervalHours == 1        \* hoursSinceLastSync < 1
StaleHours == 1              \* needsBackgroundSync(db, 1)
DefaultMaxFiles == 500       \* maxFiles = 500
PARALLEL_LIMIT == 5          \* files fetched together
CommitDetailLimit == 10      \* commits.slice(0, 10)
WeekHours == 168             \* oneWeekAgo
StartClock == 1000           \* hour at which the process starts
OldCommitDate == 1           \* a commit made long before the process starts

Runs == 1..MaxRuns

\* TARGET_REPOSITORIES, cut down to two repositories
TARGET_REPOSITORIES == {"power-platform", "rest-apis"}

\* The what's-new files of the remote, in the order the tree listing
\* returns them (repository order, then tree order).
FileOrder ==
  << [repo |-> "power-platform", path |-> <<"power-platform", "whats-new">>],
     [repo |-> "power-platform", path |-> <<"power-platform", "release-notes">>],
     [repo |-> "rest-apis", path |-> <<"whats-new">>] >>

Range(s) == {s[i] : i \in DOMAIN s}
Files == Range(FileOrder)
Paths == {f.path : f \in Files}
Min(a, b) == IF a < b THEN a ELSE b
Max(a, b) == IF a > b THEN a ELSE b

RECURSIVE SumOver(_, _)
SumOver(S, g) ==
  IF S = {} THEN 0
  ELSE LET x == CHOOSE y \in S : TRUE IN g[x] + SumOver(S \ {x}, g)

\* ------------------------------------------------------------------ state
VARIABLES
  clock,               \* Date.now(), in hours
  remoteTree,          \* remote: the what's-new files, in listing order
  remoteSha,           \* remote: blob sha (version) of each file
  remoteCommitDate,    \* remote: date of the last commit touching the file
  remoteRank,          \* remote: position of that commit in the repository log
  rateLimited,         \* remote: the API answers 403 to every request
  faults,              \* faults injected so far (failed calls, throwing writes)
  powerplat_updates,   \* store: the article rows, in rowid order
  repo_sha,            \* store: repository -> latest_sha
  sync_checkpoint,     \* store: the single checkpoint row
  backgroundSyncPromise, \* sync.service.ts module state: run slot or NULL
  run,                 \* per run slot: locals of syncFromGitHub
  syncs,               \* number of syncFromGitHub invocations so far
  lastFailed,          \* log: paths "Failed to process file" of the last run
  upsertCalls,         \* the records passed to upsertUpdate by a direct caller
  fetch,               \* githubFetch: the locals of one call
  frontmatter,         \* parseFrontmatter: the date lines read, the dates got
  loop                 \* the file loop of a run: fetches in flight, upserts

vars == << clock, remoteTree, remoteSha, remoteCommitDate, remoteRank,
           rateLimited, faults, powerplat_updates, repo_sha, sync_checkpoint,
           backgroundSyncPromise, run, syncs, lastFailed, upsertCalls, fetch,
           frontmatter, loop >>

\* the state of the components that are also specified on their own
unitVars == << upsertCalls, fetch, frontmatter, loop >>

remoteVars == << remoteTree, remoteSha, remoteCommitDate, remoteRank >>

\* ------------------------------------------------------------ local store
\* COALESCE(a, b) of SQLite
Coalesce(a, b) == IF a # NULL THEN a ELSE b

\* file_path LIKE '%' || suffix
EndsWith(path, suffix) ==
  /\ Len(suffix) <= Len(path)
  /\ SubSeq(path, Len(path) - Len(suffix) + 1, Len(path)) = suffix

HasRow(tbl, path) == \E i \in DOMAIN tbl : tbl[i].file_path = path

RowOf(tbl, path) == tbl[CHOOSE i \in DOMAIN tbl : tbl[i].file_path = path]

\* an upsert whose DO UPDATE also overwrites first_commit_date
upsertUpdateOverwrite(tbl, update) ==
  LET row == [file_path |-> update.filePath, title |-> update.title,
              commit_sha |-> update.commitSha,
              commit_date |-> update.commitDate,
              first_commit_date |-> update.firstCommitDate]
  IN IF HasRow(tbl, update.filePath)
     THEN [i \in DOMAIN tbl |->
             IF tbl[i].file_path = update.filePath THEN row ELSE tbl[i]]
     ELSE Append(tbl, row)

\* an INSERT without the ON CONFLICT clause, on a table without the UNIQUE
\* constraint
upsertUpdateInsert(tbl, update) ==
  Append(tbl, [file_path |-> update.filePath, title |-> update.title,
               commit_sha |-> update.commitSha,
               commit_date |-> update.commitDate,
               first_commit_date |-> update.firstCommitDate])

\* INSERT ... ON CONFLICT(file_path) DO UPDATE SET ...
upsertUpdate(tbl, update) ==
  IF HasRow(tbl, update.filePath)
  THEN [i \in DOMAIN tbl |->
          IF tbl[i].file_path = update.filePath
          THEN [file_path |-> tbl[i].file_path,
                title |-> update.title,
                commit_sha |-> update.commitSha,
                commit_date |-> update.commitDate,
                first_commit_date |->
                  Coalesce(tbl[i].first_commit_date, update.firstCommitDate)]
          ELSE tbl[i]]
  ELSE Append(tbl, [file_path |-> update.filePath,
                    title |-> update.title,
                    commit_sha |-> update.commitSha,
                    commit_date |-> update.commitDate,
                    first_commit_date |-> update.firstCommitDate])

\* UPDATE powerplat_updates SET commit_date, commit_sha WHERE file_path LIKE ?
updateCommitDate(tbl, filePath, commitDate, commitSha) ==
  [i \in DOMAIN tbl |->
     IF EndsWith(tbl[i].file_path, filePath)
     THEN [tbl[i] EXCEPT !.commit_date = commitDate, !.commit_sha = commitSha]
     ELSE tbl[i]]

\* UPDATE ... SET first_commit_date WHERE file_path LIKE ? AND
\* first_commit_date IS NULL
updateFirstCommitDate(tbl, filePath, firstCommitDate) ==
  [i \in DOMAIN tbl |->
     IF EndsWith(tbl[i].file_path, filePath) /\ tbl[i].first_commit_date = NULL
     THEN [tbl[i] EXCEPT !.first_commit_date = firstCommitDate]
     ELSE tbl[i]]

\* SELECT file_path, commit_sha ... WHERE commit_sha IS NOT NULL, as a Map
getFileShaMap(tbl) ==
  LET withSha == {i \in DOMAIN tbl : tbl[i].commit_sha # NULL}
  IN [p \in {tbl[i].file_path : i \in withSha} |-> RowOf(tbl, p).commit_sha]

\* SELECT COUNT(commit_date) FROM powerplat_updates: the records that have
\* a commit date
getTotalUpdateCountDated(tbl) ==
  Cardinality({i \in DOMAIN tbl : tbl[i].commit_date # NULL})

\* SELECT COUNT(*) FROM powerplat_updates
getTotalUpdateCount(tbl) == Len(tbl)

\* UPDATE sync_checkpoint SET <the fields of data that are not undefined>
updateSyncCheckpoint(cp, data) ==
  [k \in DOMAIN cp |-> IF k \in DOMAIN data THEN data[k] ELSE cp[k]]

\* INSERT OR REPLACE INTO repo_sha, for every entry of a Map
upsertRepoShas(tbl, shas) ==
  [r \in DOMAIN tbl \cup DOMAIN shas |->
     IF r \in DOMAIN shas THEN shas[r] ELSE tbl[r]]

\* the checkpoint row schema.sql inserts
InitialCheckpoint ==
  [last_sync |-> Epoch, sync_status |-> "idle", record_count |-> 0,
   last_error |-> << >>]

\* .slice(0, n)
Slice(s, n) == SubSeq(s, 1, Min(n, Len(s)))

\* ---------------------------------------------------------- remote source
RepoOf(path) == (CHOOSE f \in Files : f.path = path).repo

PathsOf(repo) == {f.path : f \in {g \in Files : g.repo = repo}}

\* sha of the head commit of a repository: it changes with every commit
LatestSha(repo) == SumOver(PathsOf(repo), remoteSha)

\* sha of the last commit that touched a file (never the sha of a blob)
CommitShaOf(path) == 0 - remoteSha[path]

\* The repositories a fan-out of API calls can get an answer for: every
\* per-repository call may fail, and all of them fail with 403 once the
\* rate limit is exhausted.
Reachable ==
  IF rateLimited THEN {{}}
  ELSE IF faults < MaxFaults THEN SUBSET TARGET_REPOSITORIES
  ELSE {TARGET_REPOSITORIES}

\* the count of faults after a fan-out was answered for okRepos only
FaultsAfter(okRepos) ==
  IF rateLimited \/ okRepos = TARGET_REPOSITORIES THEN faults ELSE faults + 1

\* getAllRepositoryLatestShas: the head sha of every repository that answered
getAllRepositoryLatestShas(okRepos) == [r \in okRepos |-> LatestSha(r)]

\* the truncated answers a tree fan-out can get: none, or (a fault) the
\* tree of one repository that answered comes back with truncated = true
Truncations(okRepos) ==
  {{}} \cup (IF ~rateLimited /\ FaultsAfter(okRepos) < MaxFaults
             THEN {{repo} : repo \in okRepos} ELSE {})

\* getRepositoryTree: data.tree, which is a strict prefix of the tree (its
\* first keep entries at most) when the answer says truncated; the flag is
\* logged and the partial tree is returned like a complete one
getRepositoryTree(repo, truncated, keep) ==
  LET tree == SelectSeq(remoteTree, LAMBDA f : f.repo = repo)
  IN IF truncated THEN Slice(tree, Min(keep, Len(tree) - 1)) ELSE tree

\* getWhatsNewFiles: the matching blobs of every repository whose tree could
\* be fetched, with their blob sha
getWhatsNewFiles(okRepos, truncated, keep) ==
  LET listed == SelectSeq(remoteTree, LAMBDA f :
                  /\ f.repo \in okRepos
                  /\ f \in Range(getRepositoryTree(f.repo,
                                     f.repo \in truncated, keep)))
  IN [i \in DOMAIN listed |->
        [path |-> listed[i].path, repo |-> listed[i].repo,
         sha |-> remoteSha[listed[i].path], commitDate |-> NULL]]

\* the files touched by one of the first CommitDetailLimit commits made
\* since a date
ChangedSince(since, okRepos) ==
  SelectSeq(remoteTree, LAMBDA f :
     /\ f.repo \in okRepos
     /\ remoteCommitDate[f.path] >= since
     /\ remoteRank[f.path] <= CommitDetailLimit)

\* getChangedFilesSince
getChangedFilesSince(since, okRepos) ==
  LET changed == ChangedSince(since, okRepos)
  IN [i \in DOMAIN changed |->
        [path |-> changed[i].path, repo |-> changed[i].repo,
         sha |-> remoteSha[changed[i].path],
         commitDate |-> remoteCommitDate[changed[i].path]]]

\* getRecentlyChangedFiles: filename -> {date, sha} of its latest commit
getRecentlyChangedFiles(since, okRepos) ==
  LET changed == ChangedSince(since, okRepos)
  IN [i \in DOMAIN changed |->
        [path |-> changed[i].path,
         date |-> remoteCommitDate[changed[i].path],
         sha |-> CommitShaOf(changed[i].path)]]

\* fetchAndParseFile, followed by the caller's update.commitSha = file.sha
\* and (incremental path) update.commitDate = file.commitDate
fetchAndParseFile(file) ==
  [filePath |-> file.path,
   title |-> remoteSha[file.path],
   commitSha |-> file.sha,
   commitDate |-> file.commitDate,
   firstCommitDate |-> NULL]

\* ------------------------------------------------------- sync orchestrator
MaxFilesChoices == {1, DefaultMaxFiles}

NoResult == [success |-> FALSE, updatesCount |-> 0, error |-> << >>]

\* the locals of a run slot in which syncFromGitHub is not running; strategy
\* is the branch the run logged it took ("interval", "pointer": the two
\* skips; "full", "incremental": the two file-level strategies) and
\* latestRepos the repositories whose latest sha the run obtained; selected
\* is filesToProcess.length (changedFiles.length on the incremental path);
\* rejected tells that the promise the caller holds was rejected and
\* skippedCalls counts the startBackgroundSync calls skipped because of it;
\* listed holds the paths of the listing the run works on until it returns
IdleRun ==
  [pc |-> "none", force |-> FALSE, incremental |-> FALSE,
   maxFiles |-> DefaultMaxFiles, background |-> FALSE,
   checkpoint |-> Epoch, latestRepoShasToPersist |-> << >>,
   filesToProcess |-> << >>, i |-> 1, deferredByMaxFiles |-> 0,
   candidates |-> 0, updatesCount |-> 0, errorCount |-> 0,
   result |-> NoResult, saw403 |-> FALSE, truncated |-> {},
   strategy |-> "none", latestRepos |-> {}, selected |-> 0,
   rejected |-> FALSE, skippedCalls |-> 0, listed |-> {},
   unlisted |-> {}, refreshed |-> {}, returnedAt |-> NULL, db |-> "db",
   previous |-> "none"]

InFlight(r) == run[r].pc \notin {"none", "done"}

\* a slot a new invocation can use (slots are interchangeable)
FreeSlot(r) ==
  /\ ~InFlight(r)
  /\ \A q \in Runs : q < r => InFlight(q)

\* return of syncFromGitHub: the promise settles, and for a background run
\* the .finally() handler clears the module state
Return(r, rn, result) ==
  /\ run' = [run EXCEPT ![r] =
       [rn EXCEPT !.pc = "done", !.result = result,
                  !.latestRepoShasToPersist = << >>,
                  !.filesToProcess = << >>, !.i = 1, !.listed = {},
                  !.refreshed = {}, !.returnedAt = clock]]
  /\ backgroundSyncPromise' =
       IF rn.background THEN NULL ELSE backgroundSyncPromise

\* a run that reports no issue
processingIssuesNone(errorCount, deferredByMaxFiles) == << >>

\* the exception that leaves syncFromGitHub when its catch block throws
UncaughtError == << <<"uncaught", 0>> >>

\* a background promise without its .catch() handler
backgroundCatchNone(outcome) == outcome

\* .catch((error) => ({success: false, updatesCount: 0, error: String(error)}))
\* of startBackgroundSync
backgroundCatch(outcome) ==
  IF outcome.rejected
  THEN [rejected |-> FALSE,
        result |-> [success |-> FALSE, updatesCount |-> 0,
                    error |-> outcome.result.error]]
  ELSE outcome

\* the promise of syncFromGitHub is rejected: for a background run the
\* handlers of startBackgroundSync then settle the tracked promise
Reject(r, rn) ==
  LET outcome == [rejected |-> TRUE,
                  result |-> [NoResult EXCEPT !.error = UncaughtError]]
      settled == IF rn.background THEN backgroundCatch(outcome) ELSE outcome
  IN Return(r, [rn EXCEPT !.rejected = settled.rejected], settled.result)

\* the issues of a finished run, as joined into lastError / error
processingIssues(errorCount, deferredByMaxFiles) ==
  (IF errorCount > 0 THEN << <<"files failed", errorCount>> >> ELSE << >>)
  \o (IF deferredByMaxFiles > 0
      THEN << <<"files deferred by maxFiles limit", deferredByMaxFiles>> >>
      ELSE << >>)

\* an entry that also holds back while the checkpoint reads syncing
skipsRecentSyncOrSyncing(force, lastSync) ==
  \/ sync_checkpoint.sync_status = "syncing"
  \/ ~force /\ clock - lastSync < MinIntervalHours

\* an entry without the interval guard
skipsRecentSyncNever(force, lastSync) == FALSE

\* if (!force && hoursSinceLastSync < 1)
skipsRecentSync(force, lastSync) ==
  ~force /\ clock - lastSync < MinIntervalHours

\* syncFromGitHub up to its first await (lines 130-177 / 259)
Enter(r, force, maxFiles, incremental, background) ==
  LET cp1 == updateSyncCheckpoint(sync_checkpoint,
               [sync_status |-> "syncing", last_error |-> << >>])
      rn == [IdleRun EXCEPT !.force = force, !.maxFiles = maxFiles,
               !.incremental = incremental, !.background = background,
               !.checkpoint = cp1.last_sync, !.previous = run[r].strategy]
  IN /\ FreeSlot(r)
     /\ syncs < MaxSyncs
     /\ syncs' = syncs + 1
     /\ IF skipsRecentSync(force, cp1.last_sync)
        THEN /\ sync_checkpoint' = updateSyncCheckpoint(cp1,
                  [sync_status |-> "idle",
                   record_count |-> getTotalUpdateCount(powerplat_updates)])
             /\ Return(r, [rn EXCEPT !.strategy = "interval"],
                       [success |-> TRUE, updatesCount |-> 0, error |-> << >>])
        ELSE /\ sync_checkpoint' = cp1
             /\ run' = [run EXCEPT ![r] =
                  [rn EXCEPT !.pc = IF force THEN "tree" ELSE "repoShas"]]
             /\ backgroundSyncPromise' =
                  IF background THEN r ELSE backgroundSyncPromise
     /\ UNCHANGED << unitVars, clock, remoteVars, rateLimited, faults,
                     powerplat_updates, repo_sha, lastFailed >>

\* a caller invokes syncFromGitHub(db, {force, maxFiles}), as the
\* sync_powerplat_updates tool does
SyncFromGitHub(r) ==
  \E force \in BOOLEAN, maxFiles \in MaxFilesChoices :
    Enter(r, force, maxFiles, FALSE, FALSE)

\* the options a caller can pass to startBackgroundSync (the callers of
\* this repository pass none: maxFiles is then 500)
BackgroundOptions == [maxFiles : MaxFilesChoices, incremental : BOOLEAN]

\* { ...options, incremental: true }
backgroundOptions(options) == [options EXCEPT !.incremental = TRUE]

\* a start that never finds a run in progress
alreadyInProgressNever == FALSE

\* the store handles startBackgroundSync can be called with: the one the
\* process opens, and a second one
Handles == {"db", "db2"}

\* backgroundSyncDb: assigned together with backgroundSyncPromise (lines
\* 92-93) and cleared together with it (lines 111-112), it is the handle of
\* the run that is tracked
backgroundSyncDb ==
  IF backgroundSyncPromise = NULL THEN NULL
  ELSE run[backgroundSyncPromise].db

\* if (backgroundSyncPromise && backgroundSyncDb === db)
alreadyInProgressOn(db) ==
  backgroundSyncPromise # NULL /\ backgroundSyncDb = db

\* the test for the handle the process opens
alreadyInProgress == alreadyInProgressOn("db")

\* startBackgroundSync(db, options): "already in progress, skipping" while
\* a background run is tracked, else
\* syncFromGitHub(db, { ...options, incremental: true })
startBackgroundSync(r) ==
  IF alreadyInProgress
  THEN /\ FreeSlot(r)
       /\ run[backgroundSyncPromise].skippedCalls < MaxSkipped
       /\ run' = [run EXCEPT ![backgroundSyncPromise].skippedCalls = @ + 1]
       /\ UNCHANGED << unitVars, clock, remoteVars, rateLimited, faults,
                       powerplat_updates, repo_sha, sync_checkpoint,
                       backgroundSyncPromise, syncs, lastFailed >>
  ELSE \E options \in BackgroundOptions :
         LET passed == backgroundOptions(options)
         IN Enter(r, FALSE, passed.maxFiles, passed.incremental, TRUE)

\* isBackgroundSyncRunning()
isBackgroundSyncRunning == backgroundSyncPromise # NULL

\* startBackgroundSync(db2, options) for the second store handle: skipped
\* while a run for that handle is tracked, else syncFromGitHub(db2, ...) is
\* called and its promise tracked; the store behind the second handle is not
\* part of the state, its run is in flight from the call until it settles
startBackgroundSyncOther(r) ==
  /\ FreeSlot(r)
  /\ IF alreadyInProgressOn("db2")
     THEN /\ run[backgroundSyncPromise].skippedCalls < MaxSkipped
          /\ run' = [run EXCEPT ![backgroundSyncPromise].skippedCalls = @ + 1]
          /\ UNCHANGED << backgroundSyncPromise, syncs >>
     ELSE /\ syncs < MaxSyncs
          /\ syncs' = syncs + 1
          /\ run' = [run EXCEPT ![r] =
               [IdleRun EXCEPT !.pc = "other", !.db = "db2",
                               !.incremental = TRUE, !.background = TRUE,
                               !.previous = run[r].strategy]]
          /\ backgroundSyncPromise' = r
  /\ UNCHANGED << unitVars, clock, remoteVars, rateLimited, faults,
                  powerplat_updates, repo_sha, sync_checkpoint, lastFailed >>

\* the run for the second handle settles: .then / .catch / .finally of
\* startBackgroundSync
OtherSettled(r) ==
  /\ run[r].pc = "other"
  /\ \E success \in BOOLEAN :
       Return(r, run[r],
              [success |-> success, updatesCount |-> 0, error |-> << >>])
  /\ UNCHANGED << unitVars, clock, remoteVars, rateLimited, faults,
                  powerplat_updates, repo_sha, sync_checkpoint, syncs,
                  lastFailed >>

\* needsBackgroundSync(db, staleHours): no lastSync, or one that is
\* staleHours old
needsBackgroundSync(staleHours) ==
  \/ sync_checkpoint.last_sync = NULL
  \/ clock - sync_checkpoint.last_sync >= staleHours

\* main at process start: if (needsBackgroundSync(db, 1))
\* startBackgroundSync(db)
main(r) ==
  /\ syncs = 0
  /\ needsBackgroundSync(StaleHours)
  /\ startBackgroundSync(r)

\* a remote call of the run is answered: with 403 if the limit is exhausted
Answered(rn) == [rn EXCEPT !.saw403 = @ \/ rateLimited]

\* isRepoDiffReliable
isRepoDiffReliable(latestRepoShas, savedRepoShas) ==
  /\ Cardinality(DOMAIN latestRepoShas) > 0
  /\ \/ Cardinality(DOMAIN savedRepoShas) = 0
     \/ Cardinality(DOMAIN latestRepoShas) >= Cardinality(DOMAIN savedRepoShas)

\* a diff that takes every repository that answered for changed
changedReposEvery(latestRepoShas, savedRepoShas) == DOMAIN latestRepoShas

\* changedRepos
changedRepos(latestRepoShas, savedRepoShas) ==
  {repo \in DOMAIN latestRepoShas :
     \/ repo \notin DOMAIN savedRepoShas
     \/ savedRepoShas[repo] # latestRepoShas[repo]}

\* a skip that leaves the timestamp as it is
pointerSkipUpdateKeepsLastSync(now, totalRecordCount) ==
  [sync_status |-> "idle", record_count |-> totalRecordCount,
   last_error |-> << >>]

\* the checkpoint update of the repository-pointer skip (lines 209-215)
pointerSkipUpdate(now, totalRecordCount) ==
  [last_sync |-> now, sync_status |-> "idle",
   record_count |-> totalRecordCount, last_error |-> << >>]

\* getAllRepositoryLatestShas is answered (lines 177-259): the repository
\* level diff, then the choice between the incremental and the full path
RepoDiffCheck(r) ==
  /\ run[r].pc = "repoShas"
  /\ \E okRepos \in Reachable :
       LET rn == [Answered(run[r]) EXCEPT !.latestRepos = okRepos]
           savedRepoShas == repo_sha
           latestRepoShas == getAllRepositoryLatestShas(okRepos)
           reliable == isRepoDiffReliable(latestRepoShas, savedRepoShas)
       IN /\ faults' = FaultsAfter(okRepos)
          /\ IF reliable /\ changedRepos(latestRepoShas, savedRepoShas) = {}
             THEN /\ sync_checkpoint' = updateSyncCheckpoint(sync_checkpoint,
                       pointerSkipUpdate(clock,
                                         getTotalUpdateCount(powerplat_updates)))
                  /\ Return(r, [rn EXCEPT !.strategy = "pointer"],
                            [success |-> TRUE, updatesCount |-> 0,
                             error |-> << >>])
                  /\ lastFailed' = {}
             ELSE /\ run' = [run EXCEPT ![r] =
                       [rn EXCEPT
                          !.latestRepoShasToPersist =
                             IF reliable THEN latestRepoShas ELSE << >>,
                          !.pc = IF rn.incremental /\ ~rn.force
                                 THEN "incr" ELSE "tree"]]
                  /\ UNCHANGED << sync_checkpoint, backgroundSyncPromise,
                                  lastFailed >>
  /\ UNCHANGED << unitVars, clock, remoteVars, rateLimited,
                  powerplat_updates, repo_sha, syncs >>

\* a filter that passes over the files the store has no sha for
EligibleKnownOnly(files, existingShaMap, force) ==
  LET isFirstSync == DOMAIN existingShaMap = {}
  IN SelectSeq(files, LAMBDA file :
       \/ force
       \/ isFirstSync
       \/ /\ file.path \in DOMAIN existingShaMap
          /\ existingShaMap[file.path] # file.sha)

\* the files a full-tree run selects: all of them when forced or when no
\* row has a sha, else those whose stored sha differs from the listed one
Eligible(files, existingShaMap, force) ==
  LET isFirstSync == DOMAIN existingShaMap = {}
  IN SelectSeq(files, LAMBDA file :
       \/ force
       \/ isFirstSync
       \/ file.path \notin DOMAIN existingShaMap
       \/ existingShaMap[file.path] # file.sha)

\* deferredByMaxFiles
deferredByMaxFilesOf(files, filesToProcess) ==
  Max(Len(files) - Len(filesToProcess), 0)

\* the files of a chunk that were fetched and upserted, each with the sha
\* the tree listing gave for it (update.commitSha = file.sha)
Refreshed(chunk, ok) ==
  {[path |-> chunk[k].path, sha |-> chunk[k].sha] : k \in ok}

\* getWhatsNewFiles is answered (lines 259-300): select the files to process
TreeListed(r) ==
  /\ run[r].pc = "tree"
  /\ \E okRepos \in Reachable :
     \E truncated \in Truncations(okRepos), keep \in {0, 1} :
       LET rn == [Answered(run[r]) EXCEPT !.strategy = "full"]
           files == getWhatsNewFiles(okRepos, truncated, keep)
           changed ==
             Eligible(files, getFileShaMap(powerplat_updates), rn.force)
           filesToProcess == Slice(changed, rn.maxFiles)
       IN /\ truncated = {} => keep = 0
          /\ faults' = FaultsAfter(okRepos) + Cardinality(truncated)
          /\ run' = [run EXCEPT ![r] =
               [rn EXCEPT
                  !.truncated = truncated,
                  !.listed = {f.path : f \in Range(files)},
                  !.unlisted = TARGET_REPOSITORIES \ okRepos,
                  !.filesToProcess = filesToProcess,
                  !.selected = Len(filesToProcess),
                  !.candidates = Len(changed),
                  !.deferredByMaxFiles =
                     deferredByMaxFilesOf(files, filesToProcess),
                  !.i = 1,
                  !.pc = IF Len(filesToProcess) = 0
                         THEN "history" ELSE "chunk"]]
          /\ lastFailed' = IF Len(filesToProcess) = 0 THEN {} ELSE lastFailed
  /\ UNCHANGED << unitVars, clock, remoteVars, rateLimited,
                  powerplat_updates, repo_sha, sync_checkpoint,
                  backgroundSyncPromise, syncs >>

\* the chunk of filesToProcess whose fetches are in flight
ChunkOf(rn) ==
  SubSeq(rn.filesToProcess, rn.i,
         Min(rn.i + PARALLEL_LIMIT - 1, Len(rn.filesToProcess)))

\* the outcomes a chunk of fetches can have: the set of positions whose
\* fetchAndParseFile succeeded (none once the rate limit is exhausted)
FetchOutcomes(chunk) ==
  IF rateLimited THEN {{}} ELSE SUBSET DOMAIN chunk

\* results of Promise.all with success: true, in chunk order
Fetched(chunk, ok) ==
  LET idx == SelectSeq([j \in DOMAIN chunk |-> j], LAMBDA j : j \in ok)
  IN [k \in DOMAIN idx |-> fetchAndParseFile(chunk[idx[k]])]

\* logger.error("Failed to process file", {path}) of a chunk, after the
\* ones the run logged for its earlier chunks
FailedPaths(rn, chunk, ok) ==
  (IF rn.i = 1 THEN {} ELSE lastFailed)
  \cup {chunk[j].path : j \in DOMAIN chunk \ ok}

\* the serial loop over results: upsertUpdate of the first n updates
RECURSIVE UpsertFirst(_, _, _)
UpsertFirst(tbl, ups, n) ==
  IF n = 0 THEN tbl
  ELSE upsertUpdate(UpsertFirst(tbl, ups, n - 1), ups[n])

\* the counters when the n-th upsert of a chunk throws: the loop over the
\* results has counted the n - 1 upserts made and the failed fetches that
\* come before the throwing one in chunk order
AtThrow(rn, chunk, ok, n) ==
  LET idx == SelectSeq([j \in DOMAIN chunk |-> j], LAMBDA j : j \in ok)
  IN [rn EXCEPT
        !.updatesCount = @ + (n - 1),
        !.errorCount =
           @ + Cardinality({j \in DOMAIN chunk \ ok : j < idx[n]})]

\* a catch block that returns without writing the status
HardErrorKeepsStatus(r, rn, chunk, ok, n) ==
  /\ powerplat_updates' =
       UpsertFirst(powerplat_updates, Fetched(chunk, ok), n - 1)
  /\ Return(r, AtThrow(rn, chunk, ok, n),
            [success |-> FALSE, updatesCount |-> 0,
             error |-> << <<"error", 0>> >>])
  /\ UNCHANGED << repo_sha, sync_checkpoint >>

\* a catch block that also stamps the checkpoint with the time of the run
HardErrorAdvances(r, rn, chunk, ok, n) ==
  /\ powerplat_updates' =
       UpsertFirst(powerplat_updates, Fetched(chunk, ok), n - 1)
  /\ sync_checkpoint' = updateSyncCheckpoint(sync_checkpoint,
       [last_sync |-> clock, sync_status |-> "error",
        last_error |-> << <<"error", 0>> >>])
  /\ Return(r, AtThrow(rn, chunk, ok, n),
            [success |-> FALSE, updatesCount |-> 0,
             error |-> << <<"error", 0>> >>])
  /\ UNCHANGED repo_sha

\* catch (error) of syncFromGitHub and of incrementalSync: an upsert threw
\* after the first n - 1 of them were written
HardError(r, rn, chunk, ok, n) ==
  /\ powerplat_updates' =
       UpsertFirst(powerplat_updates, Fetched(chunk, ok), n - 1)
  /\ sync_checkpoint' = updateSyncCheckpoint(sync_checkpoint,
       [sync_status |-> "error", last_error |-> << <<"error", 0>> >>])
  /\ Return(r, AtThrow(rn, chunk, ok, n),
            [success |-> FALSE, updatesCount |-> 0,
             error |-> << <<"error", 0>> >>])
  /\ UNCHANGED repo_sha

\* the updateSyncCheckpoint of the catch block throws as well (the store is
\* unusable): nothing is written and the exception leaves syncFromGitHub
CatchThrows(r, rn, chunk, ok, n) ==
  /\ powerplat_updates' =
       UpsertFirst(powerplat_updates, Fetched(chunk, ok), n - 1)
  /\ Reject(r, AtThrow(rn, chunk, ok, n))
  /\ UNCHANGED << repo_sha, sync_checkpoint >>

\* whether the catch block throws too, after an upsert threw: a second fault
CatchOutcomes(throwAt) ==
  {FALSE} \cup (IF throwAt > 0 /\ faults + 1 < MaxFaults THEN {TRUE} ELSE {})

\* the upsert of the serial loop that throws: 0 if none does
ThrowPoints(chunk) == IF faults < MaxFaults THEN 0..Len(chunk) ELSE {0}

\* a loop that counts one error for a chunk with failed files
AfterChunkCountsOnce(rn, chunk, ok) ==
  [rn EXCEPT !.updatesCount = @ + Cardinality(ok),
             !.errorCount = @ + Min(Len(chunk) - Cardinality(ok), 1),
             !.i = @ + PARALLEL_LIMIT]

\* the locals after the results of a chunk were written
AfterChunk(rn, chunk, ok) ==
  [rn EXCEPT !.updatesCount = @ + Cardinality(ok),
             !.errorCount = @ + (Len(chunk) - Cardinality(ok)),
             !.i = @ + PARALLEL_LIMIT]

\* Promise.all of a chunk settles on the full path (lines 300-344)
ChunkFetched(r) ==
  /\ run[r].pc = "chunk"
  /\ LET rn == Answered(run[r])
         chunk == ChunkOf(rn)
     IN \E ok \in FetchOutcomes(chunk), throwAt \in ThrowPoints(chunk) :
        \E catchThrows \in CatchOutcomes(throwAt) :
          /\ throwAt <= Cardinality(ok)
          /\ faults' = faults + (IF throwAt > 0 THEN 1 ELSE 0)
                              + (IF catchThrows THEN 1 ELSE 0)
          /\ lastFailed' = FailedPaths(rn, chunk, ok)
          /\ IF catchThrows
             THEN CatchThrows(r, rn, chunk, ok, throwAt)
             ELSE IF throwAt > 0
             THEN HardError(r, rn, chunk, ok, throwAt)
             ELSE LET after == [AfterChunk(rn, chunk, ok) EXCEPT
                                  !.refreshed = @ \cup Refreshed(chunk, ok)]
                      more == after.i <= Len(rn.filesToProcess)
                  IN /\ powerplat_updates' =
                          UpsertFirst(powerplat_updates, Fetched(chunk, ok),
                                      Cardinality(ok))
                     /\ run' = [run EXCEPT ![r] =
                          IF more THEN after
                          ELSE [after EXCEPT !.pc = "history",
                                  !.filesToProcess = << >>, !.i = 1]]
                     /\ UNCHANGED << sync_checkpoint, repo_sha,
                                     backgroundSyncPromise >>
  /\ UNCHANGED << unitVars, clock, remoteVars, rateLimited, syncs >>

\* for (const [filePath, info] of changedFiles) updateCommitDate(...)
RECURSIVE UpdateCommitDates(_, _, _)
UpdateCommitDates(tbl, changedFiles, n) ==
  IF n = 0 THEN tbl
  ELSE updateCommitDate(UpdateCommitDates(tbl, changedFiles, n - 1),
                        changedFiles[n].path, changedFiles[n].date,
                        changedFiles[n].sha)

\* a final checkpoint write that always carries lastSync, as the earlier
\* revision of the service wrote it
checkpointUpdateAlways(data, hasProcessingErrors) ==
  data @@ [last_sync |-> clock]

\* a final checkpoint write that puts lastSync back to the beginning when
\* the run had processing errors
checkpointUpdateResets(data, hasProcessingErrors) ==
  data @@ [last_sync |-> IF hasProcessingErrors THEN Epoch ELSE clock]

\* checkpointUpdate: lastSync is part of the write only when the run had no
\* processing errors
checkpointUpdate(data, hasProcessingErrors) ==
  IF hasProcessingErrors THEN data ELSE data @@ [last_sync |-> clock]

\* watermarks persisted whatever the run's errors, as the earlier revision
\* of the service did right after the repository diff
persistRepoShasAlways(tbl, latestRepoShasToPersist, hasProcessingErrors) ==
  IF latestRepoShasToPersist # << >>
  THEN upsertRepoShas(tbl, latestRepoShasToPersist)
  ELSE tbl

\* if (latestRepoShasToPersist && !hasProcessingErrors) upsertRepoSha(...)
persistRepoShas(tbl, latestRepoShasToPersist, hasProcessingErrors) ==
  IF latestRepoShasToPersist # << >> /\ ~hasProcessingErrors
  THEN upsertRepoShas(tbl, latestRepoShasToPersist)
  ELSE tbl

\* getRecentCommits, then getRecentlyChangedFiles are answered (lines
\* 344-426; the commits table is not part of the model): commit dates, the
\* watermarks, the checkpoint and the result of a full-tree run
Complete(r) ==
  /\ run[r].pc = "history"
  /\ \E okRepos \in Reachable :
       LET rn == Answered(run[r])
           changedFiles == getRecentlyChangedFiles(clock - WeekHours, okRepos)
           tbl == UpdateCommitDates(powerplat_updates, changedFiles,
                                    Len(changedFiles))
           hasProcessingErrors ==
             rn.errorCount > 0 \/ rn.deferredByMaxFiles > 0
           issues == processingIssues(rn.errorCount, rn.deferredByMaxFiles)
           data == [sync_status |-> "idle",
                    record_count |-> getTotalUpdateCount(tbl),
                    last_error |-> issues]
       IN /\ faults' = FaultsAfter(okRepos)
          /\ powerplat_updates' = tbl
          /\ repo_sha' = persistRepoShas(repo_sha, rn.latestRepoShasToPersist,
                                          hasProcessingErrors)
          /\ sync_checkpoint' = updateSyncCheckpoint(sync_checkpoint,
               checkpointUpdate(data, hasProcessingErrors))
          /\ Return(r, rn, [success |-> ~hasProcessingErrors,
                            updatesCount |-> rn.updatesCount,
                            error |-> issues])
  /\ UNCHANGED << unitVars, clock, remoteVars, rateLimited, syncs, lastFailed >>

\* end of incrementalSync, then lines 247-254 of syncFromGitHub: the
\* checkpoint, the result, and the watermarks if the result is a success
IncrementalDone(r, rn, tbl) ==
  LET hasProcessingErrors == rn.errorCount > 0
      issues == processingIssues(rn.errorCount, 0)
      data == [sync_status |-> "idle",
               record_count |-> getTotalUpdateCount(tbl),
               last_error |-> issues]
  IN /\ sync_checkpoint' = updateSyncCheckpoint(sync_checkpoint,
          checkpointUpdate(data, hasProcessingErrors))
     /\ repo_sha' = persistRepoShas(repo_sha, rn.latestRepoShasToPersist,
                                     hasProcessingErrors)
     /\ Return(r, rn, [success |-> ~hasProcessingErrors,
                       updatesCount |-> rn.updatesCount,
                       error |-> issues])

\* getChangedFilesSince is answered (lines 464-499)
IncrementalListed(r) ==
  /\ run[r].pc = "incr"
  /\ \E okRepos \in Reachable :
       LET rn == [Answered(run[r]) EXCEPT
                    !.strategy = "incremental",
                    !.unlisted = TARGET_REPOSITORIES \ okRepos]
           changedFiles == getChangedFilesSince(rn.checkpoint, okRepos)
       IN /\ faults' = FaultsAfter(okRepos)
          /\ IF Len(changedFiles) = 0
             THEN /\ sync_checkpoint' = updateSyncCheckpoint(sync_checkpoint,
                       [last_sync |-> clock, sync_status |-> "idle",
                        record_count |-> getTotalUpdateCount(powerplat_updates)])
                  /\ repo_sha' = persistRepoShas(repo_sha,
                                       rn.latestRepoShasToPersist, FALSE)
                  /\ Return(r, rn, [success |-> TRUE, updatesCount |-> 0,
                                     error |-> << >>])
                  /\ lastFailed' = {}
             ELSE /\ run' = [run EXCEPT ![r] =
                       [rn EXCEPT !.filesToProcess = changedFiles, !.i = 1,
                                  !.listed =
                                     {f.path : f \in Range(changedFiles)},
                                  !.selected = Len(changedFiles),
                                  !.pc = "ichunk"]]
                  /\ UNCHANGED << sync_checkpoint, repo_sha,
                                  backgroundSyncPromise, lastFailed >>
  /\ UNCHANGED << unitVars, clock, remoteVars, rateLimited,
                  powerplat_updates, syncs >>

\* Promise.all of a chunk settles on the incremental path (lines 499-562)
IncrementalChunk(r) ==
  /\ run[r].pc = "ichunk"
  /\ LET rn == Answered(run[r])
         chunk == ChunkOf(rn)
     IN \E ok \in FetchOutcomes(chunk), throwAt \in ThrowPoints(chunk) :
        \E catchThrows \in CatchOutcomes(throwAt) :
          /\ throwAt <= Cardinality(ok)
          /\ faults' = faults + (IF throwAt > 0 THEN 1 ELSE 0)
                              + (IF catchThrows THEN 1 ELSE 0)
          /\ lastFailed' = FailedPaths(rn, chunk, ok)
          /\ IF catchThrows
             THEN CatchThrows(r, rn, chunk, ok, throwAt)
             ELSE IF throwAt > 0
             THEN HardError(r, rn, chunk, ok, throwAt)
             ELSE LET after == AfterChunk(rn, chunk, ok)
                      tbl == UpsertFirst(powerplat_updates,
                                         Fetched(chunk, ok), Cardinality(ok))
                  IN /\ powerplat_updates' = tbl
                     /\ IF after.i > Len(rn.filesToProcess)
                        THEN IncrementalDone(r, after, tbl)
                        ELSE /\ run' = [run EXCEPT ![r] = after]
                             /\ UNCHANGED << sync_checkpoint, repo_sha,
                                             backgroundSyncPromise >>
  /\ UNCHANGED << unitVars, clock, remoteVars, rateLimited, syncs >>

\* ------------------------------------------------------------ environment
\* an hour passes
Tick ==
  /\ clock < StartClock + MaxTicks
  /\ clock' = clock + 1
  /\ UNCHANGED << unitVars, remoteVars, rateLimited, faults,
                  powerplat_updates, repo_sha, sync_checkpoint,
                  backgroundSyncPromise, run, syncs, lastFailed >>

\* a commit to a repository changes one what's-new file
CommitFile(path) ==
  /\ path \in {f.path : f \in Range(remoteTree)}
  /\ SumOver(Paths, remoteSha) < Cardinality(Paths) + MaxCommits
  /\ remoteSha' = [remoteSha EXCEPT ![path] = @ + 1]
  /\ remoteCommitDate' = [remoteCommitDate EXCEPT ![path] = clock]
  /\ remoteRank' = [p \in Paths |->
       IF p = path THEN 1
       ELSE IF RepoOf(p) = RepoOf(path)
            THEN Min(remoteRank[p] + 1, CommitDetailLimit + 1)
            ELSE remoteRank[p]]
  /\ UNCHANGED << unitVars, clock, remoteTree, faults, rateLimited,
                  powerplat_updates, repo_sha, sync_checkpoint,
                  backgroundSyncPromise, run, syncs, lastFailed >>

\* the API budget is exhausted: every request is answered 403 from now on
RateLimitExceeded ==
  /\ ~rateLimited
  /\ faults < MaxFaults
  /\ faults' = faults + 1
  /\ rateLimited' = TRUE
  /\ UNCHANGED << unitVars, clock, remoteVars, powerplat_updates, repo_sha,
                  sync_checkpoint, backgroundSyncPromise, run, syncs,
                  lastFailed >>

\* ------------------------------------------------------------ githubFetch
MAX_RETRIES == 3
RETRY_DELAY_MS == 1000
Forbidden == 403             \* response.status === 403

\* what a request is answered with: an HTTP status, or 0 when fetch rejects
Responses == {0, 200, Forbidden, 404, 500}

\* response.ok
IsOk(response) == response = 200

\* no call of githubFetch was made
NoFetch == [pc |-> "none", attempt |-> 0, responses |-> << >>, waited |-> 0]

\* githubFetch(url, token) is called: the request of attempt 1 is sent
githubFetch ==
  /\ fetch.pc = "none"
  /\ fetch' = [NoFetch EXCEPT !.pc = "request", !.attempt = 1]
  /\ UNCHANGED << upsertCalls, frontmatter, loop, clock, remoteVars, rateLimited,
                  faults, powerplat_updates, repo_sha, sync_checkpoint,
                  backgroundSyncPromise, run, syncs, lastFailed >>

\* a loop that gives up one attempt early
afterFetchGivesUpEarly(f, response) ==
  LET got == [f EXCEPT !.responses = Append(@, response)]
  IN IF IsOk(response) THEN [got EXCEPT !.pc = "returned"]
     ELSE IF f.attempt >= MAX_RETRIES - 1 THEN [got EXCEPT !.pc = "thrown"]
     ELSE [got EXCEPT !.pc = "delay"]

\* the locals after await fetch(url) settled: return response, or a throw
\* inside the try, which the catch of the loop turns into a wait or, on the
\* last attempt, into the throw of githubFetch
afterFetch(f, response) ==
  LET got == [f EXCEPT !.responses = Append(@, response)]
  IN IF IsOk(response) THEN [got EXCEPT !.pc = "returned"]
     ELSE IF f.attempt = MAX_RETRIES THEN [got EXCEPT !.pc = "thrown"]
     ELSE [got EXCEPT !.pc = "delay"]

\* await fetch(url, {headers}) settles
FetchSettled(response) ==
  /\ fetch.pc = "request"
  /\ fetch' = afterFetch(fetch, response)
  /\ UNCHANGED << upsertCalls, frontmatter, loop, clock, remoteVars, rateLimited,
                  faults, powerplat_updates, repo_sha, sync_checkpoint,
                  backgroundSyncPromise, run, syncs, lastFailed >>

\* setTimeout(r, RETRY_DELAY_MS * attempt) fires: the next attempt
RetryDelayElapsed ==
  /\ fetch.pc = "delay"
  /\ fetch' = [fetch EXCEPT !.waited = @ + RETRY_DELAY_MS * fetch.attempt,
                            !.attempt = @ + 1, !.pc = "request"]
  /\ UNCHANGED << upsertCalls, frontmatter, loop, clock, remoteVars, rateLimited,
                  faults, powerplat_updates, repo_sha, sync_checkpoint,
                  backgroundSyncPromise, run, syncs, lastFailed >>

\* ------------------------------------------------- direct calls of upsert
\* the records a caller passes to upsertUpdate
Updates ==
  [filePath : {<<"whats-new">>, <<"release-notes">>}, title : {1, 2},
   commitSha : {NULL, 1}, commitDate : {NULL},
   firstCommitDate : {NULL, 1, 2}]

\* upsertUpdate(db, update)
CallUpsertUpdate(update) ==
  /\ Len(upsertCalls) < MaxUpserts
  /\ powerplat_updates' = upsertUpdate(powerplat_updates, update)
  /\ upsertCalls' = Append(upsertCalls, update)
  /\ UNCHANGED << fetch, frontmatter, loop, clock, remoteVars, rateLimited,
                  faults, repo_sha, sync_checkpoint, backgroundSyncPromise, run, syncs,
                  lastFailed >>

\* the base path of a tracked repository: powerapps-docs-rest-apis (like
\* mslearn-developer-tools-power-platform) has basePath ""
basePath(repo) ==
  IF repo = "power-platform" THEN <<"power-platform">> ELSE << >>

\* item.path.startsWith(repo.basePath)
StartsWith(path, prefix) ==
  Len(prefix) <= Len(path) /\ SubSeq(path, 1, Len(prefix)) = prefix

\* the what's-new blobs the trees of the tracked repositories can hold: a
\* repository without base path can hold a file at any path
ListableFiles ==
  {f \in [repo : TARGET_REPOSITORIES, path : Paths, sha : {1, 2}] :
     StartsWith(f.path, basePath(f.repo))}

\* the body of the file loop of a run for one listed file:
\* fetchAndParseFile(file.rawUrl, file.path, file.repo),
\* update.commitSha = file.sha, upsertUpdate(db, update)
UpsertListedFile(file) ==
  /\ Len(upsertCalls) < MaxUpserts
  /\ powerplat_updates' =
       upsertUpdate(powerplat_updates,
                    fetchAndParseFile([path |-> file.path, repo |-> file.repo,
                                       sha |-> file.sha, commitDate |-> NULL]))
  /\ upsertCalls' = Append(upsertCalls, file)
  /\ UNCHANGED << fetch, frontmatter, loop, clock, remoteVars, rateLimited,
                  faults, repo_sha, sync_checkpoint, backgroundSyncPromise, run, syncs,
                  lastFailed >>

\* the commits getRecentlyChangedFiles can report for a path: their date and
\* their sha
CommitInfos == [date : {StartClock - 1, StartClock}, sha : {2, 3}]

\* one pass of the commit-date loop of a run for one changed file:
\* updateCommitDate(db, filePath, info.date, info.sha)
CallUpdateCommitDate(filePath, info) ==
  /\ Len(upsertCalls) < MaxUpserts
  /\ powerplat_updates' =
       updateCommitDate(powerplat_updates, filePath, info.date, info.sha)
  /\ upsertCalls' = Append(upsertCalls,
       [filePath |-> filePath, commitDate |-> info.date,
        commitSha |-> info.sha])
  /\ UNCHANGED << fetch, frontmatter, loop, clock, remoteVars, rateLimited,
                  faults, repo_sha, sync_checkpoint, backgroundSyncPromise, run, syncs,
                  lastFailed >>

\* ------------------------------------------------ dates in front matter
\* a string is the sequence of its characters
DigitChars == <<"0", "1", "2", "3", "4", "5", "6", "7", "8", "9">>

IsDigits(s) == \A i \in DOMAIN s : s[i] \in Range(DigitChars)

\* String(n) of a natural number
RECURSIVE Decimal(_)
Decimal(n) ==
  IF n < 10 THEN << DigitChars[n + 1] >>
  ELSE Decimal(n \div 10) \o << DigitChars[(n % 10) + 1] >>

\* s.padStart(targetLength, "0")
RECURSIVE padStart(_, _)
padStart(s, targetLength) ==
  IF Len(s) >= targetLength THEN s ELSE padStart(<<"0">> \o s, targetLength)

\* the groups of /^(\d{1,2})\/(\d{1,2})\/(\d{4})/ on s: month, day, year, or
\* << >> without a match; a digit is no slash, so one split matches at most
MdyGroups(s) ==
  LET splits ==
        {md \in (1..2) \X (1..2) :
           /\ Len(s) >= md[1] + md[2] + 6
           /\ IsDigits(SubSeq(s, 1, md[1]))
           /\ s[md[1] + 1] = "/"
           /\ IsDigits(SubSeq(s, md[1] + 2, md[1] + md[2] + 1))
           /\ s[md[1] + md[2] + 2] = "/"
           /\ IsDigits(SubSeq(s, md[1] + md[2] + 3, md[1] + md[2] + 6))}
  IN IF splits = {} THEN << >>
     ELSE LET md == CHOOSE split \in splits : TRUE
          IN << SubSeq(s, 1, md[1]),
                SubSeq(s, md[1] + 2, md[1] + md[2] + 1),
                SubSeq(s, md[1] + md[2] + 3, md[1] + md[2] + 6) >>

\* the length of the match of /^\d{4}-\d{2}-\d{2}/ on s, or 0
IsoPrefix(s) ==
  IF /\ Len(s) >= 10
     /\ IsDigits(SubSeq(s, 1, 4)) /\ s[5] = "-"
     /\ IsDigits(SubSeq(s, 6, 7)) /\ s[8] = "-"
     /\ IsDigits(SubSeq(s, 9, 10))
  THEN 10 ELSE 0

\* normalizeDateToISO without padStart
normalizeDateToISOUnpadded(dateStr) ==
  LET mdyMatch == MdyGroups(dateStr)
  IN IF /\ mdyMatch # << >>
        /\ Len(dateStr) = Len(mdyMatch[1]) + Len(mdyMatch[2]) + 6
     THEN mdyMatch[3] \o <<"-">> \o mdyMatch[1] \o <<"-">> \o mdyMatch[2]
     ELSE dateStr

\* normalizeDateToISO(dateStr): MM/DD/YYYY becomes year-month-day with month
\* and day padded to two digits; every other string is returned as it is
normalizeDateToISO(dateStr) ==
  LET mdyMatch == MdyGroups(dateStr)
  IN IF /\ mdyMatch # << >>
        /\ Len(dateStr) = Len(mdyMatch[1]) + Len(mdyMatch[2]) + 6
     THEN mdyMatch[3] \o <<"-">> \o padStart(mdyMatch[1], 2)
                      \o <<"-">> \o padStart(mdyMatch[2], 2)
     ELSE dateStr

\* no date: metadata.date ?? null
NoDate == << >>

\* the date parseFrontmatter reads from the text after "date:" and its
\* white space: the first group of
\* /^(?:ms\.)?date:\s*(\d{1,2}\/\d{1,2}\/\d{4}|\d{4}-\d{2}-\d{2})/m,
\* normalised, which fetchAndParseFile stores as releaseDate
releaseDate(text) ==
  LET mdy == MdyGroups(text)
  IN IF mdy # << >>
     THEN normalizeDateToISO(SubSeq(text, 1, Len(mdy[1]) + Len(mdy[2]) + 6))
     ELSE IF IsoPrefix(text) > 0
     THEN normalizeDateToISO(SubSeq(text, 1, IsoPrefix(text)))
     ELSE NoDate

\* the calendar dates of the front matter read
FrontmatterDates ==
  [month : {1, 9, 10, 12}, day : {1, 9, 10, 31}, year : {999, 2024}]

\* YYYY-MM-DD
IsoSpelling(date) ==
  padStart(Decimal(date.year), 4) \o <<"-">> \o padStart(Decimal(date.month), 2)
    \o <<"-">> \o padStart(Decimal(date.day), 2)

\* the ways a front matter spells a date
DateSpellings == {"YYYY-MM-DD", "M/D/YYYY", "MM/DD/YYYY"}

OtherSpellings == {"YYYY-MM-DDThh:mm", "D Mon YYYY", "YYYY-M-D"}

Spelling(date, as) ==
  CASE as = "YYYY-MM-DD" -> IsoSpelling(date)
    [] as = "M/D/YYYY" ->
         Decimal(date.month) \o <<"/">> \o Decimal(date.day) \o <<"/">>
           \o padStart(Decimal(date.year), 4)
    [] as = "MM/DD/YYYY" ->
         padStart(Decimal(date.month), 2) \o <<"/">>
           \o padStart(Decimal(date.day), 2) \o <<"/">>
           \o padStart(Decimal(date.year), 4)
    [] as = "YYYY-MM-DDThh:mm" ->
         IsoSpelling(date) \o <<"T", "0", "0", ":", "0", "0">>
    [] as = "D Mon YYYY" ->
         Decimal(date.day) \o <<" ", "J", "a", "n", " ">>
           \o Decimal(date.year)
    [] as = "YYYY-M-D" ->
         padStart(Decimal(date.year), 4) \o <<"-">> \o Decimal(date.month)
           \o <<"-">> \o Decimal(date.day)

NoFrontmatter == [date |-> [month |-> 1, day |-> 1, year |-> 2024],
                  releaseDate |-> << >>]

\* parseFrontmatter(content) of a file whose front matter spells its date
\* in one more way
parseFrontmatter(as) ==
  /\ as \notin DOMAIN frontmatter.releaseDate
  /\ frontmatter' =
       [frontmatter EXCEPT !.releaseDate =
          @ @@ (as :> releaseDate(Spelling(frontmatter.date, as)))]
  /\ UNCHANGED << upsertCalls, fetch, loop, clock, remoteVars, rateLimited,
                  faults, powerplat_updates, repo_sha, sync_checkpoint,
                  backgroundSyncPromise, run, syncs, lastFailed >>

\* ---------------------------------------------------------- the file loop
\* The loop over the chunks of filesToProcess, one step per settled fetch
\* and per handled result: files are numbered 1..files; inFlight are the
\* files whose fetchAndParseFile has not settled, results the settled ones
\* of the chunk with their success flag; upserted lists the upserts made.
NoLoop ==
  [pc |-> "none", files |-> 0, i |-> 1, inFlight |-> {}, results |-> {},
   next |-> 1, upserted |-> << >>, errorCount |-> 0]

\* the last file of filesToProcess.slice(i, i + PARALLEL_LIMIT)
ChunkEnd(i, files) == Min(i + PARALLEL_LIMIT - 1, files)

\* a promise that resolves with the first fetch that settles
PromiseAny(inFlight) == TRUE

\* Promise.all(chunk.map(...)) resolves when no fetch of the chunk is left
PromiseAll(inFlight) == inFlight = {}

\* for (const chunk of chunks): chunk.map(async (file) => ...) starts the
\* fetch of every file of the chunk, then the loop awaits Promise.all
ChunkDispatched ==
  /\ loop.pc = "chunks"
  /\ loop' = IF loop.i > loop.files
             THEN [loop EXCEPT !.pc = "done"]
             ELSE [loop EXCEPT
                     !.pc = "await", !.results = {},
                     !.inFlight = loop.i..ChunkEnd(loop.i, loop.files)]
  /\ UNCHANGED << upsertCalls, fetch, frontmatter, clock, remoteVars,
                  rateLimited, faults, powerplat_updates, repo_sha,
                  sync_checkpoint, backgroundSyncPromise, run, syncs,
                  lastFailed >>

\* fetchAndParseFile of file j settles: { success: true, update } or, from
\* the catch, { success: false }
FileFetchSettled(j, success) ==
  /\ loop.pc = "await"
  /\ j \in loop.inFlight
  /\ LET left == loop.inFlight \ {j}
     IN loop' = [loop EXCEPT
                   !.inFlight = left,
                   !.results = @ \cup {[file |-> j, success |-> success]},
                   !.next = IF PromiseAll(left) THEN loop.i ELSE @,
                   !.pc = IF PromiseAll(left) THEN "results" ELSE @]
  /\ UNCHANGED << upsertCalls, fetch, frontmatter, clock, remoteVars,
                  rateLimited, faults, powerplat_updates, repo_sha,
                  sync_checkpoint, backgroundSyncPromise, run, syncs,
                  lastFailed >>

\* for (const result of results): upsertUpdate and updatesCount++, or
\* errorCount++; after the last result the loop goes to the next chunk
ResultHandled ==
  /\ loop.pc = "results"
  /\ LET ok == [file |-> loop.next, success |-> TRUE] \in loop.results
         last == loop.next >= ChunkEnd(loop.i, loop.files)
     IN loop' = [loop EXCEPT
                   !.upserted = IF ok THEN Append(@, loop.next) ELSE @,
                   !.errorCount = IF ok THEN @ ELSE @ + 1,
                   !.next = @ + 1,
                   !.i = IF last THEN @ + PARALLEL_LIMIT ELSE @,
                   !.pc = IF last THEN "chunks" ELSE @]
  /\ UNCHANGED << upsertCalls, fetch, frontmatter, clock, remoteVars,
                  rateLimited, faults, powerplat_updates, repo_sha,
                  sync_checkpoint, backgroundSyncPromise, run, syncs,
                  lastFailed >>

\* ------------------------------------------------------------------- spec
\* The store is the one schema.sql creates; every remote file has one
\* version, whose commit is either recent or buried under more than
\* CommitDetailLimit later commits of its repository.
InitStore(tree, failed) ==
  /\ clock = StartClock
  /\ remoteTree = tree
  /\ faults = failed
  /\ remoteSha = [p \in Paths |-> 1]
  /\ \E buried \in {{}, Paths} :
       /\ remoteCommitDate = [p \in Paths |->
            IF p \in buried THEN OldCommitDate ELSE StartClock - 1]
       /\ remoteRank = [p \in Paths |->
            IF p \in buried THEN CommitDetailLimit + 1 ELSE 1]
  /\ rateLimited = FALSE
  /\ powerplat_updates = << >>
  /\ repo_sha = << >>
  /\ sync_checkpoint = InitialCheckpoint
  /\ backgroundSyncPromise = NULL
  /\ run = [r \in Runs |-> IdleRun]
  /\ syncs = 0
  /\ lastFailed = {}
  /\ upsertCalls = << >>
  /\ fetch = NoFetch

\* no front matter has been read
InitWith(tree, failed) ==
  /\ InitStore(tree, failed)
  /\ frontmatter = NoFrontmatter
  /\ loop = NoLoop

\* a trigger starts a run
Trigger(r) ==
  \/ SyncFromGitHub(r)
  \/ startBackgroundSync(r)

\* a run in flight resumes after an await
Resume(r) ==
  \/ RepoDiffCheck(r)
  \/ TreeListed(r)
  \/ ChunkFetched(r)
  \/ Complete(r)
  \/ IncrementalListed(r)
  \/ IncrementalChunk(r)

RunStep(r) == Trigger(r) \/ Resume(r)

\* the remote and the clock
Environment ==
  \/ \E path \in Paths : CommitFile(path)
  \/ Tick
  \/ RateLimitExceeded

\* no run is in flight
Quiet == \A q \in Runs : ~InFlight(q)

\* triggers that come one after the other: a run starts only when the one
\* before it has returned
Next ==
  \/ \E r \in Runs : Quiet /\ SyncFromGitHub(r)
  \/ \E r \in Runs : Quiet /\ startBackgroundSync(r)
  \/ \E r \in Runs : Resume(r)
  \/ Environment

Init == InitWith(FileOrder, 0)

Spec == Init /\ [][Next]_vars

\* triggers at any time
NextOverlap ==
  \/ \E r \in Runs : RunStep(r)
  \/ Environment

\* overlapping triggers, against a remote with one file
InitOverlap == InitWith(SubSeq(FileOrder, 3, 3), MaxFaults - 1)

SpecOverlap == InitOverlap /\ [][NextOverlap]_vars

\* ------------------------------------------------- properties of a sync run
\* C1: for a given store at most one sync run is in flight at any time: a
\* trigger that arrives while a run has started and not yet returned does
\* not start a second run.
C1_AtMostOneRunInFlight == Cardinality({r \in Runs : InFlight(r)}) <= 1

\* C2: when a run in which at least one file failed while others succeeded
\* has returned, the checkpoint's lastSync equals the value the run read
\* when it started.
C2_PartialFailureKeepsLastSync ==
  \A r \in Runs :
    (run[r].pc = "done" /\ run[r].errorCount > 0 /\ run[r].updatesCount > 0)
      => sync_checkpoint.last_sync = run[r].checkpoint

\* a run that stored some files and failed on others has returned, at a time
\* other than the lastSync it started from
C2_Witness ==
  \E r \in Runs :
    /\ run[r].pc = "done"
    /\ run[r].errorCount > 0
    /\ run[r].result.updatesCount > 0
    /\ run[r].checkpoint # clock

\* C3: a repo_sha row is written only by the step that ends a run, and only
\* if no file of that run failed and none was deferred.
C3_RepoShaOnlyAfterCleanRun ==
  [][repo_sha' # repo_sha =>
       \E r \in Runs :
         /\ InFlight(r)
         /\ run'[r].pc = "done"
         /\ run'[r].errorCount = 0
         /\ run'[r].deferredByMaxFiles = 0]_vars

\* a non-forced run, every repository call of which was answered, so that it
\* held the head shas of all repositories, has returned with a failed or a
\* deferred file, and no repo_sha row exists
C3_Witness ==
  \E r \in Runs :
    /\ run[r].pc = "done"
    /\ ~run[r].force
    /\ faults = 0
    /\ run[r].errorCount > 0 \/ run[r].deferredByMaxFiles > 0
    /\ run[r].result.updatesCount > 0
    /\ repo_sha = << >>

\* C4: a full-tree run with more eligible candidates than maxFiles processes
\* exactly maxFiles files, reports exactly candidates - maxFiles files as
\* deferred, and does not advance lastSync.
C4_CapDefersTheExcess ==
  \A r \in Runs :
    run[r].candidates > run[r].maxFiles =>
      /\ run[r].deferredByMaxFiles = run[r].candidates - run[r].maxFiles
      /\ run[r].pc = "chunk" => Len(run[r].filesToProcess) = run[r].maxFiles
      /\ run[r].pc = "history" =>
            run[r].updatesCount + run[r].errorCount = run[r].maxFiles
      /\ run[r].pc = "done" => sync_checkpoint.last_sync = run[r].checkpoint

\* the store has no row with the current version of a file
NeedsRetry(path) ==
  \/ ~HasRow(powerplat_updates, path)
  \/ RowOf(powerplat_updates, path).commit_sha # remoteSha[path]

\* the step in which run r decides what it processes
Selects(r) ==
  /\ run[r].pc \in {"repoShas", "tree", "incr"}
  /\ run'[r].pc \in {"done", "history", "chunk", "ichunk"}

\* C5: after a run in which the fetch of file B failed, the next non-forced
\* run selects B for processing again (here: when every repository call of
\* that run is answered, the run is not capped, and the store still lacks
\* B's current version).
C5_FailedFileIsSelectedAgain ==
  [][\A r \in Runs : \A B \in lastFailed :
       ( /\ Selects(r)
         /\ ~run[r].force
         /\ run[r].maxFiles = DefaultMaxFiles
         /\ ~rateLimited
         /\ faults' = faults
         /\ NeedsRetry(B) )
       => \E k \in DOMAIN run'[r].filesToProcess :
            run'[r].filesToProcess[k].path = B]_vars

\* C8: the checkpoint status is syncing from the first write of a run until
\* the run returns, and idle or error, never syncing, once it has returned
\* (a run that an exception left has not returned).
C8_StatusFollowsTheRun ==
  /\ (\E r \in Runs : InFlight(r)) => sync_checkpoint.sync_status = "syncing"
  /\ (Quiet /\ \A r \in Runs : run[r].result.error # UncaughtError)
       => sync_checkpoint.sync_status \in {"idle", "error"}

\* a run has returned through its catch block
C8_Witness ==
  \E r \in Runs :
    /\ run[r].pc = "done"
    /\ run[r].result.error = << <<"error", 0>> >>
    /\ sync_checkpoint.sync_status = "error"

\* C10: a run to which a remote call answered rate-limit-exceeded issues no
\* further remote call, and returns success = false with an error that
\* mentions the reset time.
C10_RateLimitStopsTheRun ==
  \A r \in Runs :
    run[r].saw403 =>
      /\ ~InFlight(r)
      /\ ~run[r].result.success
      /\ \E k \in DOMAIN run[r].result.error :
            run[r].result.error[k][1] = "rate limit reset"


\* ---------------------------------------------- properties of upsertUpdate
\* the records passed to upsertUpdate for a key, in call order
SuppliedFor(path) == SelectSeq(upsertCalls, LAMBDA u : u.filePath = path)

\* the first firstCommitDate that is not null among records, null if none
FirstNonNull(updates) ==
  LET given == SelectSeq(updates, LAMBDA u : u.firstCommitDate # NULL)
  IN IF given = << >> THEN NULL ELSE given[1].firstCommitDate

\* C6, as the spec states it: after every sequence of upsertUpdate calls the
\* stored first_commit_date of a key equals the value the first upsert of
\* that key supplied.
C6_FirstUpsertValueIsKept ==
  \A i \in DOMAIN powerplat_updates :
    powerplat_updates[i].first_commit_date =
      SuppliedFor(powerplat_updates[i].file_path)[1].firstCommitDate

\* C6, amended: after every sequence of upsertUpdate calls the stored
\* first_commit_date of a key equals the first value other than null that
\* an upsert of that key supplied, and is null while none supplied one.
C6_FirstNonNullValueIsKept ==
  \A i \in DOMAIN powerplat_updates :
    powerplat_updates[i].first_commit_date =
      FirstNonNull(SuppliedFor(powerplat_updates[i].file_path))

\* a key was upserted with null, then with a date, then with another date,
\* and the row holds the first of the two dates
C6_Witness ==
  \E i \in DOMAIN powerplat_updates :
    LET supplied == SuppliedFor(powerplat_updates[i].file_path)
    IN /\ Len(supplied) >= 3
       /\ supplied[1].firstCommitDate = NULL
       /\ supplied[2].firstCommitDate # NULL
       /\ supplied[3].firstCommitDate \notin {NULL, supplied[2].firstCommitDate}
       /\ powerplat_updates[i].first_commit_date = supplied[2].firstCommitDate

\* C7: a call of upsertUpdate with the record the call before it passed
\* leaves the table as it was, with exactly one row for the key.
C7_UpsertTwiceIsUpsertOnce ==
  [][\A update \in Updates :
       ( /\ upsertCalls # << >>
         /\ upsertCalls[Len(upsertCalls)] = update
         /\ upsertCalls' = Append(upsertCalls, update) )
       => /\ powerplat_updates' = powerplat_updates
          /\ Cardinality({i \in DOMAIN powerplat_updates' :
                 powerplat_updates'[i].file_path = update.filePath}) = 1]_vars

\* the same record was passed twice in a row, after a record of another key
C7_Witness ==
  /\ Len(upsertCalls) = 3
  /\ upsertCalls[3] = upsertCalls[2]
  /\ upsertCalls[1].filePath # upsertCalls[2].filePath
  /\ Len(powerplat_updates) = 2

\* ------------------------------------------------ properties of githubFetch
\* C9: a 403 response is not retried: it is the last response of the call,
\* which fails at once, without a backoff wait.
C9_ForbiddenIsNotRetried ==
  \A k \in DOMAIN fetch.responses :
    fetch.responses[k] = Forbidden =>
      /\ k = Len(fetch.responses)
      /\ fetch.pc = "thrown"

\* C11: a run whose tree listing came back truncated for a repository
\* reports the failure when it ends, and the step that ends it advances
\* neither lastSync nor the watermark of that repository
C11_TruncatedListingIsAFailure ==
  [][\A r \in Runs :
       (InFlight(r) /\ run'[r].pc = "done" /\ run'[r].truncated # {}) =>
          /\ ~run'[r].result.success
          /\ sync_checkpoint'.last_sync = sync_checkpoint.last_sync
          /\ \A repo \in run'[r].truncated :
                /\ (repo \in DOMAIN repo_sha') = (repo \in DOMAIN repo_sha)
                /\ repo \in DOMAIN repo_sha =>
                      repo_sha'[repo] = repo_sha[repo]]_vars

\* C12: a run that ended by the pointer-check skip had obtained the latest
\* ref of every tracked repository; with a ref missing the run goes on to a
\* file-level strategy
C12_SkipOnlyWithEveryRef ==
  \A r \in Runs :
    (run[r].pc = "done" /\ run[r].strategy = "pointer") =>
       run[r].latestRepos = TARGET_REPOSITORIES

\* C13: when a non-forced run that passed the interval guard obtains, for
\* every tracked repository, a latest ref equal to the stored watermark, it
\* ends at once (no tree listing, no file fetch, no record touched) with
\* lastSync = now, status idle, success = true and updatesCount = 0
C13_UnchangedRefsEndTheRun ==
  [][\A r \in Runs :
       ( /\ run[r].pc = "repoShas"
         /\ run'[r].pc # "repoShas"
         /\ run'[r].latestRepos = TARGET_REPOSITORIES
         /\ \A repo \in TARGET_REPOSITORIES :
               /\ repo \in DOMAIN repo_sha
               /\ repo_sha[repo] = LatestSha(repo) )
       => /\ run'[r].pc = "done"
          /\ run'[r].strategy = "pointer"
          /\ run'[r].result.success
          /\ run'[r].result.updatesCount = 0
          /\ sync_checkpoint'.last_sync = clock
          /\ sync_checkpoint'.sync_status = "idle"
          /\ powerplat_updates' = powerplat_updates]_vars

C13_Witness ==
  \E r \in Runs :
    /\ run[r].pc = "done"
    /\ run[r].strategy = "pointer"
    /\ ~run[r].force
    /\ run[r].latestRepos = TARGET_REPOSITORIES
    /\ \A repo \in TARGET_REPOSITORIES :
          repo \in DOMAIN repo_sha /\ repo_sha[repo] = LatestSha(repo)
    /\ run[r].checkpoint < clock
    /\ sync_checkpoint.last_sync = clock
    /\ Len(powerplat_updates) > 0

\* C14: the first run on an empty store, manual or background and not
\* forced, during which every remote call and every upsert succeeded and
\* whose maxFiles is at least the number N of what's-new files, took the
\* full-tree strategy, left exactly N records, stored the watermark of every
\* repository and advanced lastSync
C14_FirstSyncIsAFullSync ==
  \A r \in Runs :
    ( /\ syncs = 1
      /\ run[r].pc = "done"
      /\ ~run[r].force
      /\ faults = 0
      /\ ~run[r].saw403
      /\ run[r].errorCount = 0
      /\ Len(remoteTree) <= run[r].maxFiles )
    => /\ run[r].strategy = "full"
       /\ Len(powerplat_updates) = Len(remoteTree)
       /\ DOMAIN repo_sha = TARGET_REPOSITORIES
       /\ sync_checkpoint.last_sync > Epoch

\* C15: an invocation that is not forced and finds lastSync less than one
\* hour old returns at once with success = true and updatesCount = 0,
\* leaving records, watermarks and lastSync as they were
C15_RecentSyncIsSkipped ==
  [][\A r \in Runs :
       ( /\ syncs' = syncs + 1
         /\ run'[r] # run[r]
         /\ ~run'[r].force
         /\ clock - sync_checkpoint.last_sync < MinIntervalHours )
       => /\ run'[r].pc = "done"
          /\ run'[r].result.success
          /\ run'[r].result.updatesCount = 0
          /\ sync_checkpoint'.last_sync = sync_checkpoint.last_sync
          /\ sync_checkpoint'.sync_status = "idle"
          /\ powerplat_updates' = powerplat_updates
          /\ repo_sha' = repo_sha]_vars

C15_Witness ==
  \E r \in Runs :
    /\ run[r].pc = "done"
    /\ run[r].strategy = "interval"
    /\ ~run[r].force
    /\ clock - run[r].checkpoint < MinIntervalHours
    /\ run[r].result.success
    /\ run[r].result.updatesCount = 0

\* the run ended in the catch block, or left it by an exception: its
\* error is the message of the exception
Threw(rn) == rn.result.error \in {<< <<"error", 0>> >>, UncaughtError}

C17_ThrowingUpsertIsFatal ==
  [][\A r \in Runs :
       ( /\ run[r].pc \in {"chunk", "ichunk"}
         /\ run'[r] # run[r]
         /\ faults' = faults + 1 )
       => /\ run'[r].pc = "done"
          /\ ~run'[r].result.success
          /\ sync_checkpoint'.sync_status = "error"
          /\ sync_checkpoint'.last_sync = sync_checkpoint.last_sync
          /\ repo_sha' = repo_sha]_vars

\* an upsert threw in a run that had obtained the latest sha of a
\* repository and had already written a record at a time later than
\* the lastSync it started from
C17_Witness ==
  \E r \in Runs :
    /\ run[r].pc = "done"
    /\ Threw(run[r])
    /\ run[r].updatesCount >= 1
    /\ run[r].latestRepos # {}
    /\ sync_checkpoint.sync_status = "error"
    /\ sync_checkpoint.last_sync = run[r].checkpoint
    /\ run[r].checkpoint < clock

C19_AtMostMaxFilesPerRun ==
  \A r \in Runs :
    /\ run[r].selected <= run[r].maxFiles
    /\ run[r].updatesCount <= run[r].maxFiles

\* C20: a run started by startBackgroundSync is a syncFromGitHub with
\* incremental = true whatever the options passed; the caller goes on while
\* the run is in flight and tracked, and the tracked promise is never
\* rejected: when the run has ended it holds a result
C20_BackgroundRunNeverRejects ==
  \A r \in Runs :
    run[r].background =>
      /\ run[r].incremental
      /\ InFlight(r) => backgroundSyncPromise = r
      /\ ~run[r].rejected
      /\ run[r].pc = "done" =>
            (run[r].result.success \/ run[r].result.error # << >>)

\* an exception left the syncFromGitHub of a background run that was
\* started with incremental = false among its options
C20_Witness ==
  \E r \in Runs :
    /\ run[r].background
    /\ run[r].incremental
    /\ run[r].pc = "done"
    /\ run[r].result.error = UncaughtError
    /\ ~run[r].result.success
    /\ ~run[r].rejected

\* C21: a startBackgroundSync call made while a background run is in flight
\* starts nothing: at most one background run is in flight at any time, it
\* is the tracked one, and a skipped call leaves the count of syncFromGitHub
\* invocations where it was
C21_OneBackgroundRunAtATime ==
  /\ Cardinality({r \in Runs : run[r].background /\ InFlight(r)}) <= 1
  /\ \A r \in Runs :
       (run[r].background /\ InFlight(r)) => backgroundSyncPromise = r
  /\ Cardinality({r \in Runs : run[r].pc # "none"}) <= syncs

\* a call was skipped during a background run that is still in flight
C21_Witness ==
  \E r \in Runs :
    /\ run[r].background
    /\ InFlight(r)
    /\ run[r].skippedCalls >= 1
    /\ backgroundSyncPromise = r

\* the keys of the stored records
StoredKeys(tbl) == {tbl[i].file_path : i \in DOMAIN tbl}

\* C22: no step of a run deletes a record (the stored keys only grow), and
\* a step of a run leaves every field of a record unchanged when the file
\* of the record is absent from the listing the run works on
C22_AbsentFilesAreLeftAlone ==
  [][/\ StoredKeys(powerplat_updates) \subseteq StoredKeys(powerplat_updates')
     /\ \A r \in Runs :
          (InFlight(r) /\ run'[r] # run[r]) =>
             \A i \in DOMAIN powerplat_updates :
                powerplat_updates[i].file_path \notin run[r].listed =>
                   /\ i \in DOMAIN powerplat_updates'
                   /\ powerplat_updates'[i] = powerplat_updates[i]]_vars

\* C23: there is one record per (repository, path): the number of records
\* is the number of distinct (repository, path) files upserted
C23_OneRecordPerRepositoryAndPath ==
  Len(powerplat_updates) =
    Cardinality({<<f.repo, f.path>> : f \in Range(upsertCalls)})

\* a string of the form YYYY-MM-DD
IsIsoForm(s) ==
  /\ Len(s) = 10
  /\ \A i \in 1..10 : IF i \in {5, 8} THEN s[i] = "-"
                                     ELSE s[i] \in Range(DigitChars)

\* C24: the MM/DD/YYYY spellings of a calendar date (1- or 2-digit month
\* and day) and its YYYY-MM-DD spelling are normalised to the same
\* YYYY-MM-DD string, and every releaseDate produced is absent or of the
\* form YYYY-MM-DD
C24_DateSpellingsNormaliseAlike ==
  /\ \A a, b \in DOMAIN frontmatter.releaseDate \cap DateSpellings :
       /\ frontmatter.releaseDate[a] = frontmatter.releaseDate[b]
       /\ frontmatter.releaseDate[a] = IsoSpelling(frontmatter.date)
  /\ \A as \in DOMAIN frontmatter.releaseDate :
       \/ frontmatter.releaseDate[as] = NoDate
       \/ IsIsoForm(frontmatter.releaseDate[as])

\* a date with a one-digit month and day has been read in all its spellings
C24_Witness ==
  /\ frontmatter.date.month < 10 /\ frontmatter.date.day < 10
  /\ DOMAIN frontmatter.releaseDate = DateSpellings \cup OtherSpellings
  /\ frontmatter.releaseDate["M/D/YYYY"] = IsoSpelling(frontmatter.date)
  /\ frontmatter.releaseDate["D Mon YYYY"] = NoDate

\* C25: a full-tree run whose eligible candidates are at most maxFiles and
\* are all processed successfully counts no file as deferred, returns
\* success, and advances lastSync and the repository watermarks, also when
\* the listing holds unchanged files that were filtered out
C25_UncappedCleanRunSucceeds ==
  [][\A r \in Runs :
       ( /\ run[r].pc = "history" /\ run'[r].pc = "done"
         /\ run[r].strategy = "full"
         /\ run[r].candidates <= run[r].maxFiles
         /\ run[r].updatesCount = run[r].candidates
         /\ run[r].errorCount = 0
         /\ ~Threw(run'[r]) )
       => /\ run'[r].deferredByMaxFiles = 0
          /\ run'[r].result.success
          /\ sync_checkpoint'.last_sync = clock
          /\ \A repo \in DOMAIN run[r].latestRepoShasToPersist :
               /\ repo \in DOMAIN repo_sha'
               /\ repo_sha'[repo] = run[r].latestRepoShasToPersist[repo]]_vars

\* C26: a repository whose tree or commit listing failed is treated as
\* failed for the cycle: the run is not reported as a success and advances
\* neither lastSync nor the watermark of that repository
C26_UnlistedRepositoryFailsTheCycle ==
  [][\A r \in Runs :
       (InFlight(r) /\ run'[r].pc = "done" /\ run'[r].unlisted # {}) =>
          /\ ~run'[r].result.success
          /\ sync_checkpoint'.last_sync = sync_checkpoint.last_sync
          /\ \A repo \in run'[r].unlisted :
                /\ (repo \in DOMAIN repo_sha') = (repo \in DOMAIN repo_sha)
                /\ repo \in DOMAIN repo_sha =>
                      repo_sha'[repo] = repo_sha[repo]]_vars

\* C27: when an incremental run returns success and advances lastSync,
\* every what's-new file changed since the previous lastSync was among the
\* files the run fetched and upserted
C27_NothingLeftBehindLastSync ==
  [][\A r \in Runs :
       ( /\ InFlight(r) /\ run'[r].pc = "done"
         /\ run'[r].strategy = "incremental"
         /\ run'[r].result.success
         /\ sync_checkpoint'.last_sync = clock )
       => \A f \in Range(remoteTree) :
            remoteCommitDate[f.path] >= run[r].checkpoint =>
               f.path \in run[r].listed]_vars

\* C28: at the end of a full-tree run every record refreshed in that run
\* has as commit_sha the version id the tree listing reported for its file
C28_StoredTokenIsTheListedVersion ==
  [][\A r \in Runs :
       ( /\ run[r].pc = "history" /\ run'[r].pc = "done"
         /\ run[r].strategy = "full"
         /\ ~Threw(run'[r]) )
       => \A file \in run[r].refreshed :
            /\ HasRow(powerplat_updates', file.path)
            /\ RowOf(powerplat_updates', file.path).commit_sha = file.sha]_vars

\* the listing a run got is the whole remote
ListedAll(rn) == rn.unlisted = {} /\ rn.truncated = {}

\* the full-tree diff of a non-forced run that finds the store as tbl and
\* gets the whole listing of the remote
FollowingDiff(tbl) ==
  Eligible(getWhatsNewFiles(TARGET_REPOSITORIES, {}, 0), getFileShaMap(tbl),
           FALSE)

\* C29: sync is idempotent against an unchanged remote: after a full-tree
\* run that processed every candidate successfully, the full-tree diff of a
\* following non-forced run against the same remote contents selects zero
\* files (here: the run got the whole listing and no commit was made to the
\* remote since the start, so the remote is the one the run listed)
C29_SecondDiffSelectsNothing ==
  [][\A r \in Runs :
       ( /\ run[r].pc = "history" /\ run'[r].pc = "done"
         /\ run[r].strategy = "full"
         /\ ListedAll(run[r]) /\ ~Threw(run'[r])
         /\ run[r].errorCount = 0
         /\ run[r].updatesCount = run[r].candidates
         /\ \A path \in Paths : remoteSha[path] = 1 )
       => FollowingDiff(powerplat_updates') = << >>]_vars

\* no file fetch of the last run that fetched files has failed
NoFailure == lastFailed = {}

\* a full-tree run has returned success, lastSync is the time of a run and
\* every repository has its watermark
FullSuccess ==
  \E r \in Runs :
    /\ run[r].pc = "done" /\ run[r].strategy = "full"
    /\ run[r].result.success
    /\ sync_checkpoint.last_sync >= StartClock
    /\ DOMAIN repo_sha = TARGET_REPOSITORIES

\* C30: against an unchanging remote without remote or persistence failures,
\* repeated non-forced full-tree runs eventually produce a run that returns
\* success and advances lastSync and the watermarks, also when the initial
\* number of candidates exceeds maxFiles
C30_RepeatedRunsEventuallySucceed == ([]NoFailure) => <>FullSuccess

\* the listed file at path is one a full-tree diff has to select: the run
\* is forced, or no record has a commit_sha, or none is stored for the path,
\* or the stored one differs from the listed version
MustSelect(path, force) ==
  \/ force
  \/ \A i \in DOMAIN powerplat_updates : powerplat_updates[i].commit_sha = NULL
  \/ \A i \in DOMAIN powerplat_updates :
       powerplat_updates[i].file_path = path =>
          powerplat_updates[i].commit_sha = NULL
  \/ \E i \in DOMAIN powerplat_updates :
       /\ powerplat_updates[i].file_path = path
       /\ powerplat_updates[i].commit_sha # remoteSha[path]

\* C31: in a full-tree run a listed file is selected if and only if the run
\* is forced, or no record has a commit_sha, or no commit_sha is stored for
\* its path, or the stored commit_sha differs from the listed version id;
\* the maxFiles cap then keeps the first maxFiles of the selected files
C31_SelectedIffChanged ==
  [][\A r \in Runs :
       (run[r].pc = "tree" /\ run'[r].pc # "tree") =>
          LET must == {path \in run'[r].listed : MustSelect(path, run[r].force)}
              taken == {f.path : f \in Range(run'[r].filesToProcess)}
          IN /\ run'[r].candidates = Cardinality(must)
             /\ taken \subseteq must
             /\ Cardinality(taken) = Min(Cardinality(must), run[r].maxFiles)]_vars

\* a non-forced run on a store with change tokens has selected some of the
\* listed files and left others out
C31_Witness ==
  \E r \in Runs :
    /\ run[r].pc = "chunk" /\ run[r].strategy = "full"
    /\ ~run[r].force
    /\ run[r].maxFiles = DefaultMaxFiles
    /\ run[r].candidates > 0
    /\ run[r].candidates < Cardinality(run[r].listed)
    /\ Len(run[r].filesToProcess) = run[r].candidates

\* the call of githubFetch has returned a response or thrown
Settled == fetch.pc \in {"returned", "thrown"}

\* the time waited before attempt number n + 1: RETRY_DELAY_MS * 1, then
\* RETRY_DELAY_MS * 2, ... , RETRY_DELAY_MS * n
WaitedBefore(n) == RETRY_DELAY_MS * ((n * (n + 1)) \div 2)

\* what a call of githubFetch has done so far is what the retry loop allows
RetriesAsSpecified ==
  /\ Len(fetch.responses) <= MAX_RETRIES
  /\ fetch.pc = "request" =>
        /\ Len(fetch.responses) = fetch.attempt - 1
        /\ fetch.waited = WaitedBefore(fetch.attempt - 1)
  /\ fetch.pc = "delay" =>
        /\ Len(fetch.responses) = fetch.attempt
        /\ fetch.waited = WaitedBefore(fetch.attempt - 1)
  /\ fetch.pc = "thrown" =>
        /\ Len(fetch.responses) = MAX_RETRIES
        /\ fetch.waited = WaitedBefore(MAX_RETRIES - 1)
  /\ fetch.pc = "returned" =>
        fetch.waited = WaitedBefore(Len(fetch.responses) - 1)
  /\ \A k \in DOMAIN fetch.responses :
       IsOk(fetch.responses[k]) <=>
          (k = Len(fetch.responses) /\ fetch.pc = "returned")

\* C32: githubFetch always terminates; a call whose every attempt fails
\* makes exactly MAX_RETRIES attempts, waits RETRY_DELAY_MS * attempt before
\* the next attempt, and then throws the error of the last attempt; the
\* first successful response is returned without a further attempt
C32_FetchRetriesAndTerminates ==
  /\ []RetriesAsSpecified
  /\ (fetch.pc # "none") ~> Settled

\* a call has thrown after MAX_RETRIES failed attempts, of which none was
\* answered 403, and the waits RETRY_DELAY_MS * 1 and RETRY_DELAY_MS * 2
C32_Witness ==
  /\ fetch.pc = "thrown"
  /\ fetch.attempt = MAX_RETRIES
  /\ \A k \in DOMAIN fetch.responses : fetch.responses[k] \in {0, 500}
  /\ fetch.waited = RETRY_DELAY_MS + RETRY_DELAY_MS * 2

\* the files of the chunk the loop is at
ChunkFiles == loop.i..ChunkEnd(loop.i, loop.files)

\* C33: file fetches are issued in batches of at most 5 concurrent
\* requests; no upsert of a batch starts before every fetch of the batch
\* has settled; upserts are made one at a time; no upsert happens while a
\* fetch of the run is in flight
C33_FetchTogetherPersistSerially ==
  /\ [](/\ Cardinality(loop.inFlight) <= PARALLEL_LIMIT
        /\ loop.inFlight \subseteq ChunkFiles
        /\ loop.pc = "results" => loop.inFlight = {})
  /\ [][loop'.upserted # loop.upserted =>
          /\ loop.inFlight = {} /\ loop'.inFlight = {}
          /\ {result.file : result \in loop.results} = ChunkFiles
          /\ Len(loop'.upserted) = Len(loop.upserted) + 1
          /\ SubSeq(loop'.upserted, 1, Len(loop.upserted)) = loop.upserted]_vars

\* a loop over more than PARALLEL_LIMIT files has ended, with files of the
\* first and of the second batch upserted
C33_Witness ==
  /\ loop.pc = "done"
  /\ loop.files > PARALLEL_LIMIT
  /\ Len(loop.upserted) + loop.errorCount = loop.files
  /\ \E k, l \in DOMAIN loop.upserted :
       loop.upserted[k] <= PARALLEL_LIMIT /\ loop.upserted[l] > PARALLEL_LIMIT

\* C34: a run stopped by the minimum-interval guard makes no remote call
\* (it returns in the step that starts it, having awaited no answer) and
\* leaves every record, every watermark and lastSync unchanged
C34_IntervalSkipTouchesNothing ==
  [][\A r \in Runs :
       ( /\ syncs' = syncs + 1
         /\ run'[r] # run[r]
         /\ ~run'[r].force
         /\ clock - sync_checkpoint.last_sync < MinIntervalHours )
       => /\ ~InFlight(r) /\ run'[r].pc = "done"
          /\ run'[r].latestRepos = {} /\ run'[r].listed = {}
          /\ run'[r].selected = 0 /\ ~run'[r].saw403
          /\ faults' = faults
          /\ powerplat_updates' = powerplat_updates
          /\ repo_sha' = repo_sha
          /\ sync_checkpoint'.last_sync = sync_checkpoint.last_sync]_vars

\* a run was stopped by the guard on a store that holds records and
\* watermarks written by the run before it
C34_Witness ==
  \E r \in Runs :
    /\ run[r].pc = "done"
    /\ run[r].strategy = "interval"
    /\ powerplat_updates # << >>
    /\ DOMAIN repo_sha = TARGET_REPOSITORIES
    /\ sync_checkpoint.last_sync = run[r].checkpoint
    /\ sync_checkpoint.last_sync > Epoch

\* C35: after a run that ended through the repository-pointer skip, a
\* following non-forced trigger within the minimum interval is stopped by
\* the interval guard and makes no remote call, no repository-pointer
\* check in particular
C35_PointerSkipArmsTheGuard ==
  [][\A r \in Runs :
       ( /\ run[r].pc = "done" /\ run[r].strategy = "pointer"
         /\ clock - run[r].returnedAt < MinIntervalHours
         /\ syncs' = syncs + 1
         /\ run'[r] # run[r]
         /\ ~run'[r].force )
       => /\ run'[r].pc = "done" /\ run'[r].strategy = "interval"
          /\ run'[r].latestRepos = {}
          /\ faults' = faults]_vars

\* a run that followed a pointer skip within the minimum interval has been
\* stopped by the guard, without a repository-pointer check
C35_Witness ==
  \E r \in Runs :
    /\ run[r].pc = "done" /\ run[r].strategy = "interval"
    /\ run[r].previous = "pointer"
    /\ ~run[r].force
    /\ run[r].latestRepos = {}
    /\ sync_checkpoint.last_sync = run[r].checkpoint
    /\ clock - sync_checkpoint.last_sync < MinIntervalHours

\* the run a trigger starts, as the options and the time since lastSync
\* alone decide it
StartsAsFromIdle(r) ==
  LET rn == run'[r]
  IN IF ~rn.force /\ clock - sync_checkpoint.last_sync < MinIntervalHours
     THEN /\ rn.pc = "done"
          /\ rn.strategy = "interval"
          /\ sync_checkpoint'.sync_status = "idle"
     ELSE /\ rn.pc = (IF rn.force THEN "tree" ELSE "repoShas")
          /\ sync_checkpoint'.sync_status = "syncing"
          /\ rn.background => backgroundSyncPromise' = r

\* C36: a checkpoint whose status reads syncing at process start, left
\* behind by an abandoned run, does not block work: the next manual or
\* background trigger starts a new run exactly as it would from status idle;
\* and the startup check finds the data stale on the age of lastSync alone.
C36_SyncingCheckpointDoesNotBlock ==
  [][/\ (syncs = 0 /\ sync_checkpoint.sync_status = "syncing")
          => /\ needsBackgroundSync(StaleHours)
                  <=> clock - sync_checkpoint.last_sync >= StaleHours
             /\ ~alreadyInProgress
     /\ \A r \in Runs :
          (/\ sync_checkpoint.sync_status = "syncing"
           /\ syncs' = syncs + 1
           /\ run'[r] # run[r]) => StartsAsFromIdle(r)]_vars

\* the startup run is in flight, started by main from a checkpoint that
\* read syncing
C36_Witness ==
  /\ syncs = 1
  /\ \E r \in Runs :
       /\ run[r].pc = "repoShas"
       /\ run[r].background
       /\ backgroundSyncPromise = r

\* C37: isBackgroundSyncRunning() returns true at every moment when some run
\* started by startBackgroundSync has not yet settled, also when
\* startBackgroundSync was called for a second store handle while the first
\* run was still in flight, and returns false once all such runs have
\* settled.
C37_RunningWhileAnyBackgroundRunUnsettled ==
  isBackgroundSyncRunning
    <=> \E r \in Runs : InFlight(r) /\ run[r].background

\* C38: across any sequence or interleaving of sync runs, with a clock that
\* never goes back, checkpoint.lastSync never moves backwards: each write of
\* lastSync stores a value greater than or equal to the value it replaces.
C38_LastSyncNeverMovesBack ==
  [][sync_checkpoint'.last_sync >= sync_checkpoint.last_sync]_vars

\* a run that entered on a lastSync written at the start hour has returned
\* an hour later with lastSync written again
C38_Witness ==
  /\ sync_checkpoint.last_sync = StartClock + 1
  /\ \E r \in Runs :
       /\ run[r].pc = "done"
       /\ run[r].checkpoint = StartClock
       /\ run[r].returnedAt = StartClock + 1
       /\ run[r].strategy \in {"pointer", "full", "incremental"}
       /\ run[r].result.success

\* the step in which run r returns, and not from a catch block
ReturnsWithoutHardError(r) ==
  /\ run'[r] # run[r]
  /\ run'[r].pc = "done"
  /\ \A k \in DOMAIN run'[r].result.error :
       run'[r].result.error[k][1] \notin {"error", "uncaught"}

\* C39: after any run that returns without a hard error (interval-guard
\* skip, pointer skip, incremental run or full-tree run, with or without
\* per-file failures), checkpoint.recordCount equals the total number of
\* stored article records.
C39_RecordCountIsTheNumberOfRecords ==
  [][\A r \in Runs :
       ReturnsWithoutHardError(r)
         => sync_checkpoint'.record_count = Len(powerplat_updates')]_vars

\* a full-tree run with a failed file has returned, on a store that holds
\* the records of the other files
C39_Witness ==
  /\ \E r \in Runs :
       /\ run[r].pc = "done"
       /\ run[r].strategy = "full"
       /\ run[r].errorCount > 0
       /\ run[r].updatesCount > 0
  /\ Quiet
  /\ sync_checkpoint.record_count = Len(powerplat_updates)
  /\ Len(powerplat_updates) > 0

\* C40: updateCommitDate(path, date, sha) changes commit_date and commit_sha
\* of at most the one record whose key equals path, and leaves every record
\* with a different key unchanged, also the records of other repositories
\* whose key merely ends with path.
C40_UpdateCommitDateTouchesOneKey ==
  [][(/\ Len(upsertCalls') = Len(upsertCalls) + 1
      /\ "commitDate" \in DOMAIN upsertCalls'[Len(upsertCalls')])
       => LET call == upsertCalls'[Len(upsertCalls')]
              tbl == powerplat_updates
          IN /\ DOMAIN powerplat_updates' = DOMAIN tbl
             /\ \A i \in DOMAIN tbl :
                  IF tbl[i].file_path = call.filePath
                  THEN powerplat_updates'[i] =
                         [tbl[i] EXCEPT !.commit_date = call.commitDate,
                                        !.commit_sha = call.commitSha]
                  ELSE powerplat_updates'[i] = tbl[i]]_vars

\* githubFetch on its own: one call, answered in every possible way
NextFetch ==
  \/ githubFetch
  \/ \E response \in Responses : FetchSettled(response)
  \/ RetryDelayElapsed

SpecFetch == Init /\ [][NextFetch]_vars

\* every request is answered or fails, and every timer fires
SpecFetchFair == SpecFetch /\ WF_vars(NextFetch)

\* upsertUpdate on its own: every sequence of at most MaxUpserts calls
NextUpsert == \E update \in Updates : CallUpsertUpdate(update)

SpecUpsert == Init /\ [][NextUpsert]_vars

\* the file loop on its own: every sequence of at most MaxUpserts files
\* that the trees of the tracked repositories can list
NextListed == \E file \in ListableFiles : UpsertListedFile(file)

SpecListed == Init /\ [][NextListed]_vars

\* parseFrontmatter on its own: one date, read in each of its spellings
InitDates ==
  /\ InitStore(FileOrder, 0)
  /\ \E date \in FrontmatterDates :
       frontmatter = [date |-> date, releaseDate |-> << >>]
  /\ loop = NoLoop

NextDates == \E as \in DateSpellings \cup OtherSpellings : parseFrontmatter(as)

SpecDates == InitDates /\ [][NextDates]_vars

\* repeated non-forced full-tree runs against an unchanging remote that
\* answers every listing: a caller invokes syncFromGitHub(db, {maxFiles})
\* again whenever the run before has returned
Rerun(r) ==
  \E maxFiles \in MaxFilesChoices : Enter(r, FALSE, maxFiles, FALSE, FALSE)

\* the count of invocations bounds the other specifications only: here it
\* starts over, so that runs repeat without end
CountAnew ==
  /\ Quiet
  /\ syncs = MaxSyncs
  /\ syncs' = 0
  /\ UNCHANGED << unitVars, clock, remoteVars, rateLimited, faults,
                  powerplat_updates, repo_sha, sync_checkpoint,
                  backgroundSyncPromise, run, lastFailed >>

InitRepeat == InitWith(FileOrder, MaxFaults)

NextRepeat ==
  \/ \E r \in Runs : Quiet /\ Rerun(r)
  \/ \E r \in Runs : RepoDiffCheck(r)
  \/ \E r \in Runs : TreeListed(r)
  \/ \E r \in Runs : ChunkFetched(r)
  \/ \E r \in Runs : Complete(r)
  \/ Tick
  \/ CountAnew

\* every answer awaited arrives and the caller keeps calling
FairRepeat ==
  /\ WF_vars(\E r \in Runs : Quiet /\ Rerun(r))
  /\ WF_vars(\E r \in Runs : RepoDiffCheck(r))
  /\ WF_vars(\E r \in Runs : TreeListed(r))
  /\ WF_vars(\E r \in Runs : ChunkFetched(r))
  /\ WF_vars(\E r \in Runs : Complete(r))
  /\ WF_vars(CountAnew)

SpecRepeat == InitRepeat /\ [][NextRepeat]_vars /\ FairRepeat

\* the file loop on its own: filesToProcess of every length up to
\* MaxLoopFiles, the fetches of a chunk settling in any order
InitLoop ==
  /\ InitStore(FileOrder, 0)
  /\ frontmatter = NoFrontmatter
  /\ \E files \in 0..MaxLoopFiles :
       loop = [NoLoop EXCEPT !.pc = "chunks", !.files = files]

NextLoop ==
  \/ ChunkDispatched
  \/ \E j \in 1..MaxLoopFiles, success \in BOOLEAN :
       FileFetchSettled(j, success)
  \/ ResultHandled

SpecLoop == InitLoop /\ [][NextLoop]_vars

\* The store as a clean full-tree run over the whole remote leaves it, an
\* interval before the process is triggered again: every file upserted with
\* the sha of the listing, the commit dates updated, the watermarks saved.
InitSynced ==
  /\ clock = StartClock
  /\ remoteTree = FileOrder
  /\ faults = MaxFaults - 1
  /\ remoteSha = [p \in Paths |-> 1]
  /\ \E buried \in {{}, Paths} :
       /\ remoteCommitDate = [p \in Paths |->
            IF p \in buried THEN OldCommitDate
            ELSE StartClock - MinIntervalHours - 1]
       /\ remoteRank = [p \in Paths |->
            IF p \in buried THEN CommitDetailLimit + 1 ELSE 1]
  /\ rateLimited = FALSE
  /\ LET files == getWhatsNewFiles(TARGET_REPOSITORIES, {}, 0)
         changedFiles == getRecentlyChangedFiles(clock - WeekHours,
                                                 TARGET_REPOSITORIES)
         tbl == UpdateCommitDates(
                  UpsertFirst(<< >>, Fetched(files, DOMAIN files), Len(files)),
                  changedFiles, Len(changedFiles))
     IN /\ powerplat_updates = tbl
        /\ sync_checkpoint =
             [last_sync |-> StartClock - MinIntervalHours,
              sync_status |-> "idle",
              record_count |-> getTotalUpdateCount(tbl),
              last_error |-> << >>]
  /\ repo_sha = getAllRepositoryLatestShas(TARGET_REPOSITORIES)
  /\ backgroundSyncPromise = NULL
  /\ run = [r \in Runs |-> IdleRun]
  /\ syncs = 0
  /\ lastFailed = {}
  /\ upsertCalls = << >>
  /\ fetch = NoFetch
  /\ frontmatter = NoFrontmatter
  /\ loop = NoLoop

\* runs triggered one after the other on a store that is in sync
SpecSynced == InitSynced /\ [][Next]_vars

\* The store an abandoned run leaves to the next process: the checkpoint
\* reads syncing; either the first run of the store died after some of its
\* files were upserted, or a later run died before its first write to a
\* store that a clean run had just brought in sync.
InitAbandoned ==
  /\ clock = StartClock
  /\ remoteTree = FileOrder
  /\ faults = MaxFaults
  /\ remoteSha = [p \in Paths |-> 1]
  /\ remoteCommitDate = [p \in Paths |-> StartClock - 1]
  /\ remoteRank = [p \in Paths |-> 1]
  /\ rateLimited = FALSE
  /\ LET files == getWhatsNewFiles(TARGET_REPOSITORIES, {}, 0)
         changedFiles == getRecentlyChangedFiles(clock - WeekHours,
                                                 TARGET_REPOSITORIES)
     IN \/ \E n \in 0..Len(files) :
             /\ powerplat_updates =
                  UpsertFirst(<< >>, Fetched(files, DOMAIN files), n)
             /\ repo_sha = << >>
             /\ sync_checkpoint =
                  [InitialCheckpoint EXCEPT !.sync_status = "syncing"]
        \/ LET tbl == UpdateCommitDates(
                        UpsertFirst(<< >>, Fetched(files, DOMAIN files),
                                    Len(files)),
                        changedFiles, Len(changedFiles))
           IN /\ powerplat_updates = tbl
              /\ repo_sha = getAllRepositoryLatestShas(TARGET_REPOSITORIES)
              /\ sync_checkpoint =
                   [last_sync |-> StartClock,
                    sync_status |-> "syncing",
                    record_count |-> getTotalUpdateCount(tbl),
                    last_error |-> << >>]
  /\ backgroundSyncPromise = NULL
  /\ run = [r \in Runs |-> IdleRun]
  /\ syncs = 0
  /\ lastFailed = {}
  /\ upsertCalls = << >>
  /\ fetch = NoFetch
  /\ frontmatter = NoFrontmatter
  /\ loop = NoLoop

\* a process that starts on such a store: the startup check of main, then
\* manual triggers, one run at a time
NextAbandoned ==
  \/ \E r \in Runs : main(r)
  \/ \E r \in Runs : Quiet /\ SyncFromGitHub(r)
  \/ \E r \in Runs : Resume(r)
  \/ Tick

SpecAbandoned == InitAbandoned /\ [][NextAbandoned]_vars

\* background starts for two store handles, at any time, against a remote
\* with one file; a background run is an incremental one
InitHandles == InitWith(SubSeq(FileOrder, 3, 3), MaxFaults)

NextHandles ==
  \/ \E r \in Runs : startBackgroundSync(r)
  \/ \E r \in Runs : startBackgroundSyncOther(r)
  \/ \E r \in Runs : RepoDiffCheck(r)
  \/ \E r \in Runs : IncrementalListed(r)
  \/ \E r \in Runs : IncrementalChunk(r)
  \/ \E r \in Runs : OtherSettled(r)
  \/ Tick

SpecHandles == InitHandles /\ [][NextHandles]_vars

\* the two writers of commit_sha and commit_date on their own: the file
\* loop upserts listed files, the commit-date loop updates changed paths
NextCommitDate ==
  \/ \E file \in ListableFiles : UpsertListedFile(file)
  \/ \E path \in Paths, info \in CommitInfos :
       CallUpdateCommitDate(path, info)

SpecCommitDate == Init /\ [][NextCommitDate]_vars

====
